---- MODULE Spec2Model ----
(***************************************************************************)
(* State-machine model of the CoreShare chatbot tester                     *)
(* (src/chatbot_tester.py): the file cascade find_chatbot_module, the      *)
(* loader load_module_from_path, the resolver find_api_function, the       *)
(* invocation engine try_chatbot_function, the static route scan           *)
(* test_flask_endpoints and the orchestrator main with the process exit.   *)
(*                                                                         *)
(* Text is modelled as sequences of one-character strings so that the      *)
(* substring, split and strip operations of the source are computed, not   *)
(* assumed.                                                                *)
(***************************************************************************)
EXTENDS Integers, Sequences, FiniteSets, TLC

(***************************************************************************)
(* Bounds of the model.                                                    *)
(***************************************************************************)
\* Files in the whole tree.
MaxTreeFiles == 2

(***************************************************************************)
(* Python string operations on sequences of characters.                    *)
(***************************************************************************)
UpperChars == <<"A", "B", "C", "D", "E", "F", "G", "H", "I", "J", "K", "L", "M", "N", "O", "P",
    "Q", "R", "S", "T", "U", "V", "W", "X", "Y", "Z">>

LowerChars == <<"a", "b", "c", "d", "e", "f", "g", "h", "i", "j", "k", "l", "m", "n", "o", "p",
    "q", "r", "s", "t", "u", "v", "w", "x", "y", "z">>

\* str.lower() on one character.
LowerChar(c) ==
  IF \E i \in 1..Len(UpperChars) : UpperChars[i] = c
  THEN LowerChars[CHOOSE i \in 1..Len(UpperChars) : UpperChars[i] = c]
  ELSE c

\* str.lower()
Lower(s) == [i \in 1..Len(s) |-> LowerChar(s[i])]

\* s[i:i+len(t)] == t
MatchAt(s, t, i) ==
  /\ i >= 1
  /\ i + Len(t) - 1 <= Len(s)
  /\ \A k \in 1..Len(t) : s[i + k - 1] = t[k]

\* Positions at which t occurs in s.
Occurrences(s, t) == {i \in 1..(Len(s) - Len(t) + 1) : MatchAt(s, t, i)}

\* Python's `t in s` for strings.
Contains(s, t) == Occurrences(s, t) # {}

\* str.startswith / str.endswith
StartsWith(s, t) == MatchAt(s, t, 1)

EndsWith(s, t) == Len(t) <= Len(s) /\ MatchAt(s, t, Len(s) - Len(t) + 1)

MinOf(S) == CHOOSE x \in S : \A y \in S : x <= y

\* Number of parts of s.split(sep).
SplitCount(s, sep) ==
  LET RECURSIVE count(_)
      count(from) ==
        LET occ == {i \in Occurrences(s, sep) : i >= from}
        IN  IF occ = {} THEN 1 ELSE 1 + count(MinOf(occ) + Len(sep))
  IN  count(1)

\* s.split(sep)[0]: the text before the first occurrence of sep.
SplitFirst(s, sep) ==
  IF Contains(s, sep) THEN SubSeq(s, 1, MinOf(Occurrences(s, sep)) - 1) ELSE s

\* s.split(sep)[1]: the text between the first and the second occurrence of
\* sep (IndexError, reported by SplitCount(s, sep) < 2, when sep is absent).
SplitSecond(s, sep) ==
  LET first == MinOf(Occurrences(s, sep))
      rest  == SubSeq(s, first + Len(sep), Len(s))
  IN  SplitFirst(rest, sep)

WhiteSpace == {" ", "\t", "\n", "\r"}

\* str.strip(chars): drop leading and trailing characters of the set.
StripSet(s, chars) ==
  LET keep == {i \in 1..Len(s) : s[i] \notin chars}
  IN  IF keep = {} THEN << >>
      ELSE SubSeq(s, MinOf(keep), CHOOSE x \in keep : \A y \in keep : y <= x)

\* str.strip()
Strip(s) == StripSet(s, WhiteSpace)

\* any(keyword in s for keyword in keywords)
ContainsAny(s, keywords) == \E k \in 1..Len(keywords) : Contains(s, keywords[k])

\* f.read(): the lines of a file, each ended by a newline.
RECURSIVE JoinLines(_)
JoinLines(lines) ==
  IF lines = << >> THEN << >>
  ELSE Head(lines) \o <<"\n">> \o JoinLines(Tail(lines))

\* The characters of attribute names, in code-point order.
CodeOrder == <<"0", "1", "2", "3", "4", "5", "6", "7", "8", "9", "A", "B", "C", "D", "E", "F",
    "G", "H", "I", "J", "K", "L", "M", "N", "O", "P", "Q", "R", "S", "T", "U", "V", "W", "X",
    "Y", "Z", "_", "a", "b", "c", "d", "e", "f", "g", "h", "i", "j", "k", "l", "m", "n", "o",
    "p", "q", "r", "s", "t", "u", "v", "w", "x", "y", "z">>

Ord(c) == CHOOSE i \in 1..Len(CodeOrder) : CodeOrder[i] = c

\* a < b as Python compares two strings: by code point, a proper prefix first.
RECURSIVE StrLess(_, _)
StrLess(a, b) ==
  IF b = << >> THEN FALSE
  ELSE IF a = << >> THEN TRUE
  ELSE IF Head(a) = Head(b) THEN StrLess(Tail(a), Tail(b))
  ELSE Ord(Head(a)) < Ord(Head(b))

(***************************************************************************)
(* The scanned repository.  A tree is the sequence of directories in the   *)
(* order os.walk(REPO_DIR) visits them (the repository directory itself    *)
(* first); a directory is the sequence of its files in the order the walk  *)
(* lists them.  A file is named by an identifier; FileName, FileLines and  *)
(* FileReadable give its name, its text and whether open() succeeds.       *)
(***************************************************************************)
FileIds == {"cori.py", "webchat.py", "main.py", "app.py"}

FileName(f) ==
  CASE f = "cori.py"    -> <<"c", "o", "r", "i", ".", "p", "y">>
    [] f = "webchat.py" -> <<"w", "e", "b", "c", "h", "a", "t", ".", "p", "y">>
    [] f = "main.py"    -> <<"m", "a", "i", "n", ".", "p", "y">>
    [] f = "app.py"     -> <<"a", "p", "p", ".", "p", "y">>
    [] f = "bot.py"             -> <<"b", "o", "t", ".", "p", "y">>
    [] f = "WebChat.py"         -> <<"W", "e", "b", "C", "h", "a", "t", ".", "p", "y">>
    [] f = "chat.txt"           -> <<"c", "h", "a", "t", ".", "t", "x", "t">>
    [] f = "notes.txt"          -> <<"n", "o", "t", "e", "s", ".", "t", "x", "t">>
    [] f = "locked.py"          -> <<"l", "o", "c", "k", "e", "d", ".", "p", "y">>
    [] f = "server_bare"        -> <<"s", "e", "r", "v", "e", "r", ".", "p", "y">>
    [] f = "server_flask"       -> <<"s", "e", "r", "v", "e", "r", ".", "p", "y">>
    [] f = "server_import"      -> <<"s", "e", "r", "v", "e", "r", ".", "p", "y">>
    [] f = "server_phrase"      -> <<"s", "e", "r", "v", "e", "r", ".", "p", "y">>
    [] f = "server_two_routes"  -> <<"s", "e", "r", "v", "e", "r", ".", "p", "y">>
    [] f = "server_broken"      -> <<"s", "e", "r", "v", "e", "r", ".", "p", "y">>
    [] f = "server_health"      -> <<"s", "e", "r", "v", "e", "r", ".", "p", "y">>

FileLines(f) ==
  CASE f = "cori.py"    -> << <<"d", "e", "f", " ", "c", "h", "a", "t", "(", "m", "e", "s", "s",
      "a", "g", "e", ")", ":">>,
                              <<" ", " ", " ", " ", "r", "e", "t", "u", "r", "n", " ", "m", "e",
                                  "s", "s", "a", "g", "e">> >>
    [] f = "webchat.py" -> << <<"i", "m", "p", "o", "r", "t", " ", "r", "e", "q", "u", "e", "s",
        "t", "s">>,
                              <<"d", "e", "f", " ", "p", "i", "n", "g", "(", ")", ":">>,
                              <<" ", " ", " ", " ", "r", "e", "t", "u", "r", "n", " ", "1">> >>
    [] f = "main.py"    -> << <<"#", " ", "C", "h", "a", "t", " ", "w", "i", "t", "h", " ", "C",
        "o", "r", "i", " ", "b", "a", "c", "k", "e", "n", "d">>,
                              <<"i", "m", "p", "o", "r", "t", " ", "f", "l", "a", "s", "k">>,
                              <<"d", "e", "f", " ", "s", "t", "a", "r", "t", "(", ")", ":">>,
                              <<" ", " ", " ", " ", "r", "e", "t", "u", "r", "n", " ", "0">> >>
    [] f = "app.py"     -> << <<"f", "r", "o", "m", " ", "f", "l", "a", "s", "k", " ", "i", "m",
        "p", "o", "r", "t", " ", "F", "l", "a", "s", "k">>,
                              <<"a", "p", "p", " ", "=", " ", "F", "l", "a", "s", "k", "(", "_",
                                  "_", "n", "a", "m", "e", "_", "_", ")">>,
                              <<"@", "a", "p", "p", ".", "r", "o", "u", "t", "e", "(", "\"", "/",
                                  "a", "p", "i", "/", "c", "h", "a", "t", "\"", ")">>,
                              <<"d", "e", "f", " ", "h", "a", "n", "d", "l", "e", "_", "c", "h",
                                  "a", "t", "(", "r", "e", "q", "u", "e", "s", "t", ")", ":">>,
                              <<" ", " ", " ", " ", "r", "e", "t", "u", "r", "n", " ", "r", "e",
                                  "q", "u", "e", "s", "t">> >>
    [] f = "bot.py" ->
         << <<"d", "e", "f", " ", "r", "e", "p", "l", "y", "(", "t", "e", "x", "t", ")",
                ":">>,
            <<" ", " ", " ", " ", "r", "e", "t", "u", "r", "n", " ", "t", "e", "x", "t">> >>
    [] f = "WebChat.py" ->
         << <<"W", "I", "D", "G", "E", "T", "S", " ", "=", " ", "3">> >>
    [] f = "chat.txt" ->
         << <<"t", "r", "a", "n", "s", "c", "r", "i", "p", "t", "s">> >>
    [] f = "notes.txt" ->
         << <<"C", "h", "a", "t", " ", "w", "i", "t", "h", " ", "C", "o", "r", "i", ":", " ",
                "n", "o", "t", "e", "s">> >>
    [] f = "locked.py" ->
         << <<"#", " ", "t", "h", "e", " ", "C", "o", "r", "i", " ", "c", "h", "a", "t", "b",
                "o", "t">> >>
    [] f = "server_bare" ->
         << <<"@", "a", "p", "p", ".", "r", "o", "u", "t", "e", "(", "\"", "/", "c", "h",
                "a", "t", "\"", ")">>,
            <<"d", "e", "f", " ", "r", "e", "s", "p", "o", "n", "d", "(", ")", ":">> >>
    [] f = "server_flask" ->
         << <<"f", "r", "o", "m", " ", "f", "l", "a", "s", "k", " ", "i", "m", "p", "o", "r",
                "t", " ", "F", "l", "a", "s", "k">>,
            <<"@", "a", "p", "p", ".", "r", "o", "u", "t", "e", "(", "\"", "/", "c", "h",
                "a", "t", "\"", ")">>,
            <<"d", "e", "f", " ", "r", "e", "s", "p", "o", "n", "d", "(", ")", ":">> >>
    [] f = "server_import" ->
         << <<"i", "m", "p", "o", "r", "t", " ", "f", "l", "a", "s", "k">>,
            <<"a", "p", "p", " ", "=", " ", "f", "l", "a", "s", "k", ".", "F", "l", "a", "s",
                "k", "(", "_", "_", "n", "a", "m", "e", "_", "_", ")">>,
            <<"@", "a", "p", "p", ".", "r", "o", "u", "t", "e", "(", "\"", "/", "c", "h",
                "a", "t", "\"", ")">>,
            <<"d", "e", "f", " ", "r", "e", "s", "p", "o", "n", "d", "(", ")", ":">>,
            <<" ", " ", " ", " ", "r", "e", "t", "u", "r", "n", " ", "'", "o", "k", "'">> >>
    [] f = "server_phrase" ->
         << <<"#", " ", "C", "h", "a", "t", " ", "w", "i", "t", "h", " ", "C", "o", "r",
                "i">>,
            <<"f", "r", "o", "m", " ", "f", "l", "a", "s", "k", " ", "i", "m", "p", "o", "r",
                "t", " ", "F", "l", "a", "s", "k">>,
            <<"@", "a", "p", "p", ".", "r", "o", "u", "t", "e", "(", "\"", "/", "c", "h",
                "a", "t", "\"", ")">>,
            <<"d", "e", "f", " ", "r", "e", "s", "p", "o", "n", "d", "(", ")", ":">> >>
    [] f = "server_two_routes" ->
         << <<"f", "r", "o", "m", " ", "f", "l", "a", "s", "k", " ", "i", "m", "p", "o", "r",
                "t", " ", "F", "l", "a", "s", "k">>,
            <<"@", "a", "p", "p", ".", "r", "o", "u", "t", "e", "(", "\"", "/", "c", "h",
                "a", "t", "\"", ")">>,
            <<"d", "e", "f", " ", "r", "e", "s", "p", "o", "n", "d", "(", ")", ":">>,
            <<"@", "a", "p", "p", ".", "r", "o", "u", "t", "e", "(", "\"", "/", "m", "e",
                "s", "s", "a", "g", "e", "\"", ")">>,
            <<"d", "e", "f", " ", "p", "o", "s", "t", "(", ")", ":">> >>
    [] f = "server_broken" ->
         << <<"f", "r", "o", "m", " ", "f", "l", "a", "s", "k", " ", "i", "m", "p", "o", "r",
                "t", " ", "F", "l", "a", "s", "k">>,
            <<"@", "a", "p", "p", ".", "r", "o", "u", "t", "e", "(", "\"", "/", "c", "h",
                "a", "t", "/", "v", "0", "\"", ")">>,
            <<"#", " ", "r", "e", "t", "i", "r", "e", "d">>,
            <<"@", "a", "p", "p", ".", "r", "o", "u", "t", "e", "(", "\"", "/", "c", "h",
                "a", "t", "\"", ")">>,
            <<"d", "e", "f", " ", "r", "e", "s", "p", "o", "n", "d", "(", ")", ":">> >>
    [] f = "server_health" ->
         << <<"f", "r", "o", "m", " ", "f", "l", "a", "s", "k", " ", "i", "m", "p", "o", "r",
                "t", " ", "F", "l", "a", "s", "k">>,
            <<"@", "a", "p", "p", ".", "r", "o", "u", "t", "e", "(", "\"", "/", "h", "e",
                "a", "l", "t", "h", "\"", ")">>,
            <<"d", "e", "f", " ", "h", "e", "a", "l", "t", "h", "(", ")", ":">>,
            <<"@", "a", "p", "p", ".", "r", "o", "u", "t", "e", "(", "\"", "/", "c", "h",
                "a", "t", "\"", ")">>,
            <<"d", "e", "f", " ", "r", "e", "s", "p", "o", "n", "d", "(", ")", ":">> >>

\* Whether open(file_path, 'r') and read() succeed.
FileReadable(f) == f # "locked.py"

\* The files of one directory have distinct names.
DirListings ==
  {l \in UNION {[1..n -> FileIds] : n \in 0..MaxTreeFiles} :
     \A i, j \in 1..Len(l) : i # j => FileName(l[i]) # FileName(l[j])}

\* The listings of lo to hi files.
Listings(lo, hi) == {l \in DirListings : Len(l) >= lo /\ Len(l) <= hi}

\* The sequences of non-empty directories that hold at most n files.
RECURSIVE SubDirs(_)
SubDirs(n) ==
  {<< >>} \cup
  UNION {{<<l>> \o s : s \in SubDirs(n - Len(l))} : l \in Listings(1, n)}

\* The repository directory comes first; a directory without files adds
\* nothing to any loop over the files of the walk, so the directories after
\* the first are the non-empty ones.
Trees ==
  UNION {{<<root>> \o s : s \in SubDirs(MaxTreeFiles - Len(root))} :
           root \in Listings(0, MaxTreeFiles)}

\* A larger catalog for find_chatbot_module alone: two files with pattern
\* names, a name that matches a keyword only in lower case, keyword and phrase
\* files that are not .py files, a phrase file that cannot be read, and files
\* that match nothing.
CascadeFiles ==
  {"cori.py", "bot.py", "WebChat.py", "chat.txt", "main.py", "locked.py", "app.py",
   "notes.txt"}

MaxCascadeFiles == 2

CascadeListings(lo, hi) ==
  {l \in UNION {[1..n -> CascadeFiles] : n \in lo..hi} :
     \A i, j \in 1..Len(l) : i # j => FileName(l[i]) # FileName(l[j])}

RECURSIVE CascadeSubDirs(_)
CascadeSubDirs(n) ==
  {<< >>} \cup
  UNION {{<<l>> \o s : s \in CascadeSubDirs(n - Len(l))} : l \in CascadeListings(1, n)}

CascadeTrees ==
  UNION {{<<root>> \o s : s \in CascadeSubDirs(MaxCascadeFiles - Len(root))} :
           root \in CascadeListings(0, MaxCascadeFiles)}

\* Repositories of one file, server.py, that has the line @app.route("/chat")
\* followed by the line def respond(): and differs in what else it holds.
ScenarioFiles ==
  {"server_bare", "server_flask", "server_import", "server_phrase", "server_two_routes",
   "server_broken", "server_health"}

\* A repository of two directories, each with a server.py: the one of the
\* root has the route lines without a Flask import, the other has both.
MixedTree == << <<"server_bare">>, <<"server_two_routes">> >>

ScenarioTrees == {<< <<f>> >> : f \in ScenarioFiles} \cup {MixedTree}

\* A path os.path.join(root, file): the directory's position in the walk and
\* the file.  NonePath is Python's None.
NonePath == [dir |-> 0, file |-> ""]

JoinPath(d, f) == [dir |-> d, file |-> f]

\* os.path.basename(path)
BaseName(path) == FileName(path.file)

(***************************************************************************)
(* find_chatbot_module: exact names, then partial names, then content.     *)
(***************************************************************************)
patterns ==
  << <<"c", "o", "r", "i", ".", "p", "y">>,
     <<"c", "h", "a", "t", "b", "o", "t", ".", "p", "y">>,
     <<"b", "o", "t", ".", "p", "y">>,
     <<"c", "h", "a", "t", "_", "w", "i", "t", "h", "_", "c", "o", "r", "i", ".", "p", "y">>,
     <<"a", "s", "s", "i", "s", "t", "a", "n", "t", ".", "p", "y">>,
     <<"a", "i", "_", "c", "h", "a", "t", ".", "p", "y">>,
     <<"c", "o", "n", "v", "e", "r", "s", "a", "t", "i", "o", "n", ".", "p", "y">>,
     <<"d", "i", "a", "l", "o", "g", "u", "e", ".", "p", "y">>,
     <<"c", "h", "a", "t", "_", "s", "e", "r", "v", "i", "c", "e", ".", "p", "y">> >>

NameKeywords == << <<"c", "h", "a", "t">>, <<"c", "o", "r", "i">>, <<"b", "o", "t">> >>

ContentPhrases == << <<"c", "h", "a", "t", " ", "w", "i", "t", "h", " ", "c", "o", "r", "i">>,
    <<"c", "o", "r", "i", " ", "c", "h", "a", "t", "b", "o", "t">> >>

PySuffix == <<".", "p", "y">>

\* `pattern in files`
InFiles(pattern, files) == \E k \in 1..Len(files) : FileName(files[k]) = pattern

\* The file called `pattern` in the listing `files`.
FileCalled(pattern, files) ==
  files[CHOOSE k \in 1..Len(files) : FileName(files[k]) = pattern]

\* Lines 56-59 returning, in the first directory with a pattern name, the
\* file the walk lists first.
ExactMatch_ListingOrder(t) ==
  LET hits == {d \in 1..Len(t) : \E p \in 1..Len(patterns) : InFiles(patterns[p], t[d])}
  IN  IF hits = {} THEN NonePath
      ELSE LET d == MinOf(hits)
               k == MinOf({j \in 1..Len(t[d]) :
                             \E p \in 1..Len(patterns) : patterns[p] = FileName(t[d][j])})
           IN  JoinPath(d, t[d][k])

\* Lines 56-59 with the two loops exchanged: for each pattern in list order,
\* for each directory of the walk.
ExactMatch_PatternFirst(t) ==
  LET hits == {p \in 1..Len(patterns) : \E d \in 1..Len(t) : InFiles(patterns[p], t[d])}
  IN  IF hits = {} THEN NonePath
      ELSE LET p == MinOf(hits)
               d == MinOf({e \in 1..Len(t) : InFiles(patterns[p], t[e])})
           IN  JoinPath(d, FileCalled(patterns[p], t[d]))

\* Lines 56-59: for each directory of the walk, for each pattern in list
\* order, return the first pattern present in the directory.
ExactMatch(t) ==
  LET hits == {d \in 1..Len(t) : \E p \in 1..Len(patterns) : InFiles(patterns[p], t[d])}
  IN  IF hits = {} THEN NonePath
      ELSE LET d == MinOf(hits)
               p == MinOf({q \in 1..Len(patterns) : InFiles(patterns[q], t[d])})
           IN  JoinPath(d, FileCalled(patterns[p], t[d]))

\* Line 64
IsPartialMatch(f) ==
  EndsWith(FileName(f), PySuffix) /\ ContainsAny(Lower(FileName(f)), NameKeywords)

\* Lines 70-80: an unreadable file raises inside the try and is passed over.
IsContentMatch(f) ==
  /\ EndsWith(FileName(f), PySuffix)
  /\ FileReadable(f)
  /\ ContainsAny(Lower(JoinLines(FileLines(f))), ContentPhrases)

\* The first file, in walk order, that is one of `matching` (NonePath if none).
FirstFile(t, matching) ==
  LET hits == {d \in 1..Len(t) : \E k \in 1..Len(t[d]) : t[d][k] \in matching}
  IN  IF hits = {} THEN NonePath
      ELSE LET d == MinOf(hits)
               k == MinOf({j \in 1..Len(t[d]) : t[d][j] \in matching})
           IN  JoinPath(d, t[d][k])

\* The files of a tree.
TreeFiles(t) == UNION {{t[d][k] : k \in 1..Len(t[d])} : d \in 1..Len(t)}

\* Lines 62-65
PartialMatch(t) == FirstFile(t, {f \in TreeFiles(t) : IsPartialMatch(f)})

\* Lines 68-80 with the try around the whole walk: the first file that cannot
\* be read ends the search.
ContentMatch_StopsAtUnreadable(t) ==
  LET hit  == FirstFile(t, {f \in TreeFiles(t) : IsContentMatch(f)})
      stop == FirstFile(t, {f \in TreeFiles(t) :
                              EndsWith(FileName(f), PySuffix) /\ ~FileReadable(f)})
  IN  IF stop = NonePath THEN hit
      ELSE IF hit = NonePath THEN NonePath
      ELSE IF stop.dir < hit.dir THEN NonePath
      ELSE IF stop.dir = hit.dir /\ stop.file # hit.file /\
              (CHOOSE k \in 1..Len(t[stop.dir]) : t[stop.dir][k] = stop.file)
                < (CHOOSE k \in 1..Len(t[hit.dir]) : t[hit.dir][k] = hit.file)
           THEN NonePath
      ELSE hit

\* Lines 68-80
ContentMatch(t) == FirstFile(t, {f \in TreeFiles(t) : IsContentMatch(f)})

\* find_chatbot_module with the partial-name walk before the exact-name walk.
find_chatbot_module_PartialFirst(exists, t) ==
  IF ~exists THEN NonePath
  ELSE IF PartialMatch(t) # NonePath THEN PartialMatch(t)
  ELSE IF ExactMatch(t) # NonePath THEN ExactMatch(t)
  ELSE ContentMatch(t)

\* find_chatbot_module with the content walk before the partial-name walk.
find_chatbot_module_ContentFirst(exists, t) ==
  IF ~exists THEN NonePath
  ELSE IF ExactMatch(t) # NonePath THEN ExactMatch(t)
  ELSE IF ContentMatch(t) # NonePath THEN ContentMatch(t)
  ELSE PartialMatch(t)

\* Lines 43-82.  exists is os.path.exists(REPO_DIR).
find_chatbot_module(exists, t) ==
  IF ~exists THEN NonePath
  ELSE IF ExactMatch(t) # NonePath THEN ExactMatch(t)
  ELSE IF PartialMatch(t) # NonePath THEN PartialMatch(t)
  ELSE ContentMatch(t)

(***************************************************************************)
(* test_flask_endpoints: the static route scan used as the fallback.       *)
(***************************************************************************)
FlaskImports == << <<"f", "r", "o", "m", " ", "f", "l", "a", "s", "k", " ", "i", "m", "p", "o",
    "r", "t">>, <<"i", "m", "p", "o", "r", "t", " ", "f", "l", "a", "s", "k">> >>

AppKeywords == << <<"c", "h", "a", "t">>, <<"c", "o", "r", "i">>, <<"b", "o", "t">> >>

RouteMarkers == << <<"@", "a", "p", "p", ".", "r", "o", "u", "t", "e">>, <<"@", "b", "l", "u",
    "e", "p", "r", "i", "n", "t", ".", "r", "o", "u", "t", "e">> >>

RouteKeywords == << <<"c", "h", "a", "t">>, <<"m", "e", "s", "s", "a", "g", "e">>, <<"c", "o",
    "r", "i">> >>

\* f.readlines(): every line keeps its newline.
ReadLines(f) == [i \in 1..Len(FileLines(f)) |-> FileLines(f)[i] \o <<"\n">>]

\* Lines 157-168 without the test of line 164: every readable .py file.
IsAppFile_AnyPython(f) ==
  /\ EndsWith(FileName(f), PySuffix)
  /\ FileReadable(f)

\* Lines 157-168: a readable .py file whose lowered text has a Flask import
\* and one of the words chat, cori, bot.
IsAppFile(f) ==
  /\ EndsWith(FileName(f), PySuffix)
  /\ FileReadable(f)
  /\ ContainsAny(Lower(JoinLines(FileLines(f))), FlaskImports)
  /\ ContainsAny(Lower(JoinLines(FileLines(f))), AppKeywords)

\* Lines 155-166: app_files, in walk order.
RECURSIVE AppFilesFrom(_, _, _)
AppFilesFrom(t, d, k) ==
  IF d > Len(t) THEN << >>
  ELSE IF k > Len(t[d]) THEN AppFilesFrom(t, d + 1, 1)
  ELSE (IF IsAppFile(t[d][k]) THEN <<JoinPath(d, t[d][k])>> ELSE << >>)
       \o AppFilesFrom(t, d, k + 1)

AppFiles(t) == AppFilesFrom(t, 1, 1)

\* Lines 182-183 without the test for a keyword.
IsRouteLine_MarkerOnly(line) == ContainsAny(Lower(line), RouteMarkers)

\* Lines 182-183
IsRouteLine(line) ==
  /\ ContainsAny(Lower(line), RouteMarkers)
  /\ ContainsAny(Lower(line), RouteKeywords)

\* Line 185 without the two strips of the quote characters.
RouteOf_KeepsQuotes(line) ==
  Strip(SplitFirst(SplitSecond(line, <<"r", "o", "u", "t", "e", "(">>), <<")">>))

\* Line 185
RouteOf(line) ==
  StripSet(StripSet(Strip(SplitFirst(SplitSecond(line, <<"r", "o", "u", "t", "e", "(">>),
      <<")">>)), {"'"}), {"\""})

\* Lines 186-187 without the split at the parenthesis.
HandlerOf_KeepsSignature(nextLine) ==
  Strip(SplitSecond(Strip(nextLine), <<"d", "e", "f", " ">>))

\* Lines 186-187
HandlerOf(nextLine) ==
  Strip(SplitFirst(SplitSecond(Strip(nextLine), <<"d", "e", "f", " ">>), <<"(">>))

\* Lines 185-187 raise IndexError when the line has no "route(" (the marker
\* was matched in lower case only), when the route line is the last line, or
\* when the next line has no "def ".
ExtractionRaises(content, i) ==
  \/ SplitCount(content[i], <<"r", "o", "u", "t", "e", "(">>) < 2
  \/ i + 1 > Len(content)
  \/ SplitCount(Strip(content[i + 1]), <<"d", "e", "f", " ">>) < 2

\* Lines 177-190 with the try inside the loop over the lines: a line whose
\* extraction raises is passed over.
RECURSIVE EndpointsFrom_SkipsLine(_, _, _)
EndpointsFrom_SkipsLine(path, content, i) ==
  IF i > Len(content) THEN << >>
  ELSE IF ~IsRouteLine(content[i]) \/ ExtractionRaises(content, i)
       THEN EndpointsFrom_SkipsLine(path, content, i + 1)
  ELSE << [route |-> RouteOf(content[i]),
           func_name |-> HandlerOf(content[i + 1]),
           file_path |-> path] >>
       \o EndpointsFrom_SkipsLine(path, content, i + 1)

\* Lines 177-190 for one file: the try encloses the loop over the lines, so
\* the first line whose extraction raises ends the scan of the file; the
\* endpoints appended before it stay.
RECURSIVE EndpointsFrom(_, _, _)
EndpointsFrom(path, content, i) ==
  IF i > Len(content) THEN << >>
  ELSE IF ~IsRouteLine(content[i]) THEN EndpointsFrom(path, content, i + 1)
  ELSE IF ExtractionRaises(content, i) THEN << >>
  ELSE << [route |-> RouteOf(content[i]),
           func_name |-> HandlerOf(content[i + 1]),
           file_path |-> path] >>
       \o EndpointsFrom(path, content, i + 1)

FileEndpoints(path) == EndpointsFrom(path, ReadLines(path.file), 1)

\* A logger.error record: the source line of the call and what the message
\* names (a path, a loop position, a path with the exception, or "" when it
\* names nothing).
LogEntry(site, subject) == [site |-> site, subject |-> subject]

\* What the scan of one file raises inside the try of lines 177-188: nothing,
\* OSError when the file cannot be opened, IndexError at the first route line
\* whose extraction fails.
ScanError(opened, content) ==
  IF ~opened THEN "OSError"
  ELSE IF \E i \in 1..Len(content) : IsRouteLine(content[i]) /\ ExtractionRaises(content, i)
       THEN "IndexError"
  ELSE "none"

\* Line 189 naming OSError instead of Exception.
ScanCaught_OnlyOSError(error) == error = "OSError"

\* Line 189: `except Exception` catches both.
ScanCaught(error) == error \in {"OSError", "IndexError"}

\* Lines 176-190 for one file: the endpoints it adds, the record line 190
\* logs, and whether an exception leaves the loop.
ScanOfFile(path, opened, content) ==
  LET error == ScanError(opened, content)
  IN  [endpoints |-> IF opened THEN EndpointsFrom(path, content, 1) ELSE << >>,
       log       |-> IF error # "none" /\ ScanCaught(error)
                     THEN << LogEntry(190, [file_path |-> path, error |-> error]) >>
                     ELSE << >>,
       escapes   |-> error # "none" /\ ~ScanCaught(error)]

\* Line 190 over all app files, in order.
RECURSIVE ScanLogOf(_)
ScanLogOf(files) ==
  IF files = << >> THEN << >>
  ELSE ScanOfFile(Head(files), TRUE, ReadLines(Head(files).file)).log
       \o ScanLogOf(Tail(files))

\* An exception leaves test_flask_endpoints.
ScanEscapes(t) ==
  LET files == AppFiles(t)
  IN  \E k \in 1..Len(files) :
         LET error == ScanError(TRUE, ReadLines(files[k].file))
         IN  error # "none" /\ ~ScanCaught(error)

\* Lines 175-190: chatbot_endpoints over all app files.
RECURSIVE EndpointsOf(_)
EndpointsOf(files) ==
  IF files = << >> THEN << >>
  ELSE FileEndpoints(Head(files)) \o EndpointsOf(Tail(files))

chatbot_endpoints(t) == EndpointsOf(AppFiles(t))

\* test_flask_endpoints calling the handlers it has found.
FallbackExecutes_CallsHandlers(t) ==
  [k \in 1..Len(EndpointsOf(AppFiles(t))) |->
     [stage |-> "FALLING_BACK", code |-> EndpointsOf(AppFiles(t))[k].func_name]]

\* Lines 150-200 import nothing, execute nothing and call nothing of the
\* files they read: the code of the tree that test_flask_endpoints runs.
FallbackExecutes(t) == << >>

\* test_flask_endpoints that returns True as soon as a Flask file was found.
test_flask_endpoints_AppFilesOnly(t) == AppFiles(t) # << >>

\* Lines 170-172 and 192-200: the value test_flask_endpoints returns.
test_flask_endpoints(t) ==
  IF AppFiles(t) = << >> THEN FALSE
  ELSE chatbot_endpoints(t) # << >>

(***************************************************************************)
(* Loaded modules.  A module is named by an identifier; ModuleAttrs gives  *)
(* its attributes in definition order.  An attribute has a name, is        *)
(* callable or not, has a __name__ or not (a functools.partial or an       *)
(* instance with __call__ has none), is truthy or not (an instance with    *)
(* __call__ and __len__ may be falsy), and a kind that says how a call of  *)
(* it ends for each argument shape.                                        *)
(***************************************************************************)
ModuleIds ==
  {"echo", "dict", "pair", "exits", "plain", "keyword", "partial", "falsy", "hooked"}

Attr(n, c, h, t, k) ==
  [name |-> n, callable |-> c, hasName |-> h, truthy |-> t, kind |-> k]

ModuleAttrs(m) ==
  CASE m = "echo"    -> << Attr(<<"c", "h", "a", "t">>, TRUE, TRUE, TRUE, "any1") >>
    [] m = "dict"    -> << Attr(<<"h", "e", "l", "p", "e", "r">>, TRUE, TRUE, TRUE, "any1"),
                           Attr(<<"h", "a", "n", "d", "l", "e", "_", "m", "e", "s", "s", "a",
                               "g", "e">>, TRUE, TRUE, TRUE, "dict1") >>
    [] m = "pair"    -> << Attr(<<"s", "e", "n", "d", "_", "m", "e", "s", "s", "a", "g", "e">>,
        TRUE, TRUE, TRUE, "str2"),
                           Attr(<<"V", "E", "R", "S", "I", "O", "N">>, FALSE, FALSE, TRUE,
                               "none") >>
    [] m = "exits"   -> << Attr(<<"r", "e", "s", "p", "o", "n", "d">>, TRUE, TRUE, TRUE, "exits") >>
    [] m = "plain"   -> << Attr(<<"_", "c", "h", "a", "t">>, TRUE, TRUE, TRUE, "any1"),
                           Attr(<<"s", "t", "a", "r", "t">>, TRUE, TRUE, TRUE, "any1"),
                           Attr(<<"c", "h", "a", "t", "_", "t", "i", "t", "l", "e">>, FALSE,
                               FALSE, TRUE, "none") >>
    [] m = "keyword" -> << Attr(<<"c", "h", "a", "t">>, FALSE, FALSE, TRUE, "none"),
                           Attr(<<"c", "o", "r", "i", "_", "r", "e", "p", "l", "y">>, TRUE, TRUE,
                               TRUE, "raises"),
                           Attr(<<"B", "o", "t", "_", "M", "e", "s", "s", "a", "g", "e">>, TRUE,
                               TRUE, TRUE, "fallible") >>
    [] m = "partial" -> << Attr(<<"a", "n", "s", "w", "e", "r">>, TRUE, FALSE, TRUE, "json1") >>
    [] m = "falsy"   -> << Attr(<<"g", "e", "t", "_", "r", "e", "s", "p", "o", "n", "s", "e">>,
        TRUE, FALSE, FALSE, "any1") >>
    [] m = "hooked"  -> << Attr(<<"_", "_", "g", "e", "t", "a", "t", "t", "r", "_", "_">>,
                               TRUE, TRUE, TRUE, "raises"),
                           Attr(<<"h", "a", "n", "d", "l", "e", "_", "m", "e", "s", "s", "a", "g", "e">>,
                               TRUE, TRUE, TRUE, "raises") >>

\* Python's None where a function is expected.
NoneAttr == Attr(<< >>, FALSE, FALSE, FALSE, "none")

\* Modules for find_api_function alone: up to MaxUnitAttrs attributes in the
\* order the module defines them, drawn from names of the candidate list
\* (chat, answer, respond), names that only hold a keyword, a private name
\* and a name without keyword, each bound to a function or to plain data.
UnitNames ==
  { <<"c", "h", "a", "t">>, <<"a", "n", "s", "w", "e", "r">>,
    <<"r", "e", "s", "p", "o", "n", "d">>,
    <<"B", "o", "t", "_", "M", "e", "s", "s", "a", "g", "e">>,
    <<"c", "o", "r", "i", "_", "r", "e", "p", "l", "y">>,
    <<"_", "c", "h", "a", "t">>, <<"h", "e", "l", "p", "e", "r">> }

UnitAttrs ==
  {Attr(n, c, c, TRUE, IF c THEN "any1" ELSE "none") : n \in UnitNames, c \in BOOLEAN}

MaxUnitAttrs == 3

Units ==
  {u \in UNION {[1..n -> UnitAttrs] : n \in 0..MaxUnitAttrs} :
     \A i, j \in 1..Len(u) : i # j => u[i].name # u[j].name}

(***************************************************************************)
(* find_api_function                                                       *)
(***************************************************************************)
function_candidates ==
  << <<"c", "h", "a", "t">>,
     <<"p", "r", "o", "c", "e", "s", "s", "_", "m", "e", "s", "s", "a", "g", "e">>,
     <<"g", "e", "t", "_", "r", "e", "s", "p", "o", "n", "s", "e">>,
     <<"h", "a", "n", "d", "l", "e", "_", "m", "e", "s", "s", "a", "g", "e">>,
     <<"g", "e", "n", "e", "r", "a", "t", "e", "_", "r", "e", "s", "p", "o", "n", "s", "e">>,
     <<"a", "n", "s", "w", "e", "r">>,
     <<"r", "e", "s", "p", "o", "n", "d">>,
     <<"p", "r", "o", "c", "e", "s", "s", "_", "c", "h", "a", "t">>,
     <<"c", "h", "a", "t", "_", "w", "i", "t", "h", "_", "c", "o", "r", "i">>,
     <<"c", "o", "r", "i", "_", "r", "e", "s", "p", "o", "n", "s", "e">>,
     <<"s", "e", "n", "d", "_", "m", "e", "s", "s", "a", "g", "e">> >>

AttrKeywords == << <<"c", "h", "a", "t">>, <<"m", "e", "s", "s", "a", "g", "e">>, <<"r", "e",
    "s", "p", "o", "n", "s", "e">>, <<"c", "o", "r", "i">> >>

\* getattr(module, name), for a name the module has.
GetAttr(attrs, n) == attrs[CHOOSE k \in 1..Len(attrs) : attrs[k].name = n]

\* Line 94 without its test of callable(...): hasattr(module, name) alone.
HasCallable_IgnoresCallable(attrs, n) ==
  \E k \in 1..Len(attrs) : attrs[k].name = n

\* hasattr(module, name) and callable(getattr(module, name))
HasCallable(attrs, n) ==
  \E k \in 1..Len(attrs) : attrs[k].name = n /\ attrs[k].callable

\* Lines 93-95 returning the candidate the module defines first.
ExactFunction_DefinitionOrder(attrs) ==
  LET hits == {k \in 1..Len(attrs) :
                 attrs[k].callable /\
                 \E c \in 1..Len(function_candidates) : function_candidates[c] = attrs[k].name}
  IN  IF hits = {} THEN NoneAttr ELSE attrs[MinOf(hits)]

\* Lines 93-95
ExactFunction(attrs) ==
  LET hits == {c \in 1..Len(function_candidates) :
                 HasCallable(attrs, function_candidates[c])}
  IN  IF hits = {} THEN NoneAttr
      ELSE GetAttr(attrs, function_candidates[MinOf(hits)])

\* dir(module): the attribute names, sorted.
RECURSIVE SortNames(_)
SortNames(names) ==
  IF names = {} THEN << >>
  ELSE LET least == CHOOSE n \in names : \A o \in names \ {n} : StrLess(n, o)
       IN  <<least>> \o SortNames(names \ {least})

\* The attribute names in the order the module defines them.
Dir_DefinitionOrder(attrs) == [k \in 1..Len(attrs) |-> attrs[k].name]

Dir(attrs) == SortNames({attrs[k].name : k \in 1..Len(attrs)})

\* Lines 100-102 without the test of line 99 for a private name.
IsKeywordFunction_AllowsPrivate(attrs, n) ==
  /\ GetAttr(attrs, n).callable
  /\ ContainsAny(Lower(n), AttrKeywords)

\* Lines 99-103
IsKeywordFunction(attrs, n) ==
  /\ ~StartsWith(n, <<"_">>)
  /\ GetAttr(attrs, n).callable
  /\ ContainsAny(Lower(n), AttrKeywords)

\* Lines 98-104
KeywordFunction(attrs) ==
  LET names == Dir(attrs)
      hits  == {k \in 1..Len(names) : IsKeywordFunction(attrs, names[k])}
  IN  IF hits = {} THEN NoneAttr ELSE GetAttr(attrs, names[MinOf(hits)])

\* Lines 84-106
find_api_function(attrs) ==
  IF ExactFunction(attrs) # NoneAttr THEN ExactFunction(attrs)
  ELSE KeywordFunction(attrs)

\* The name under which a module defines its own attribute hook: Python calls
\* module.__getattr__(name) when a lookup of `name` on the module finds nothing.
GetAttrHook == <<"_", "_", "g", "e", "t", "a", "t", "t", "r", "_", "_">>

\* Line 94: the candidate names hasattr looks up before line 95 returns, and
\* of these the names the module does not have; each such lookup runs the
\* module's __getattr__ when the module defines one.
HookCalls(attrs) ==
  LET hits    == {c \in 1..Len(function_candidates) :
                    HasCallable(attrs, function_candidates[c])}
      tried   == IF hits = {} THEN function_candidates
                 ELSE SubSeq(function_candidates, 1, MinOf(hits) - 1)
      missing == SelectSeq(tried,
                   LAMBDA n : ~\E k \in 1..Len(attrs) : attrs[k].name = n)
  IN  IF HasCallable(attrs, GetAttrHook) THEN missing ELSE << >>

\* Lines 93-95: the code of the loaded module that find_api_function runs.
ResolveExecutes(attrs) ==
  [k \in 1..Len(HookCalls(attrs)) |-> [stage |-> "RESOLVING", code |-> GetAttrHook]]

(***************************************************************************)
(* try_chatbot_function: the calling patterns and the order of attempts.   *)
(***************************************************************************)
\* The five entries of try_patterns.
PatternCount == 5

\* The shape of the arguments calling pattern i passes.
ArgShape(i) ==
  CASE i = 1 -> "str"
    [] i = 2 -> "dict"
    [] i = 3 -> "str_str"
    [] i = 4 -> "dict"
    [] i = 5 -> "json_str"

\* How `response = pattern()` followed by the logging of the response can
\* end for a callable of the given kind:
\*   "ok"          the call returns and the response is logged;
\*   "unprintable" the call returns a value whose formatting raises;
\*   "raise"       the call raises an Exception;
\*   "exit"        the call raises SystemExit or KeyboardInterrupt.
\* any1 takes one parameter and uses it opaquely, dict1 reads data["message"],
\* str2 takes (message, user_id), json1 decodes its one parameter with
\* json.loads, raises always raises, exits calls sys.exit, fallible returns a
\* printable value or raises an Exception, and unknown is any code that ends
\* by returning some value or by raising an Exception.
CallOutcomes(kind, i) ==
  CASE kind = "any1"    -> IF ArgShape(i) = "str_str" THEN {"raise"} ELSE {"ok"}
    [] kind = "dict1"   -> IF ArgShape(i) = "dict" THEN {"ok"} ELSE {"raise"}
    [] kind = "str2"    -> IF ArgShape(i) = "str_str" THEN {"ok"} ELSE {"raise"}
    [] kind = "json1"   -> IF ArgShape(i) = "json_str" THEN {"ok"} ELSE {"raise"}
    [] kind = "raises"  -> {"raise"}
    [] kind = "exits"   -> {"exit"}
    [] kind = "fallible" -> {"ok", "raise"}
    [] kind = "unknown" -> {"ok", "unprintable", "raise"}
    [] OTHER            -> {"raise"}

\* Lines 133-138 run to the end of the try block.
AttemptSucceeds(outcome) == outcome = "ok"

\* Line 135: the call of the pattern has returned a value.
CallReturned(outcome) == outcome \in {"ok", "unprintable"}

\* Lines 139-143: `except Exception` catches the outcome.
AttemptCaught(outcome) == outcome \in {"raise", "unprintable"}

\* Line 140 holding only for the last pattern of the last message.
LogsLastError_LastMessageOnly(m, i, n) == i = PatternCount /\ m = n

\* Line 140: the caught error of the attempt (m, i) is logged (lines 141-142).
LogsLastError(m, i, n) == i = PatternCount

\* A position of the two nested loops: message m, calling pattern i.
\* LoopsDone: both loops have ended.
LoopsDone == [m |-> 0, i |-> 0]

\* AfterSuccess without the outer `if success: break` (lines 145-146): the
\* next message is tried after a success.
AfterSuccess_NoOuterBreak(m, i, n) ==
  IF m < n THEN [m |-> m + 1, i |-> 1] ELSE LoopsDone

\* Lines 137-138 and 145-146: success breaks out of both loops.
AfterSuccess(m, i, n) == LoopsDone

\* AfterFailure with the inner loop one pattern short.
AfterFailure_SkipsLastPattern(m, i, n) ==
  IF i < PatternCount - 1 THEN [m |-> m, i |-> i + 1]
  ELSE IF m < n THEN [m |-> m + 1, i |-> 1]
  ELSE LoopsDone

\* AfterFailure that gives up once one message has failed with all patterns.
AfterFailure_StopsAfterOneMessage(m, i, n) ==
  IF i < PatternCount THEN [m |-> m, i |-> i + 1] ELSE LoopsDone

\* Lines 139-143 and 115: the next pattern, else the next message, else the
\* end of the loops (n messages).
AfterFailure(m, i, n) ==
  IF i < PatternCount THEN [m |-> m, i |-> i + 1]
  ELSE IF m < n THEN [m |-> m + 1, i |-> 1]
  ELSE LoopsDone

(***************************************************************************)
(* main: the orchestrator.                                                 *)
(***************************************************************************)
\* Lines 208-214
SampleMessages ==
  << "Hello", "How are you?", "What services do you offer?",
     "Tell me about CoreShare", "Can you help me with a question?" >>

\* Command lines: rejected by argparse, without --message, with an empty and
\* with a non-empty --message.
Args ==
  { [usage_error |-> TRUE,  has_message |-> FALSE, message |-> ""],
    [usage_error |-> FALSE, has_message |-> FALSE, message |-> ""],
    [usage_error |-> FALSE, has_message |-> TRUE,  message |-> ""],
    [usage_error |-> FALSE, has_message |-> TRUE,  message |-> "Where is Cori?"] }

\* Lines 208-217: `if args.message:` is false for None and for "".
TestMessages(a) ==
  IF a.has_message /\ a.message # "" THEN <<a.message>> \o SampleMessages
  ELSE SampleMessages

\* AfterSearch that gives up when no module file is found.
AfterSearch_FailsWhenNotFound(path) ==
  IF path = NonePath THEN "FAILED" ELSE "LOADING"

\* Lines 225-228
AfterSearch(path) == IF path = NonePath THEN "FALLING_BACK" ELSE "LOADING"

\* AfterLoad that tries the Flask endpoints after a failed load, as the other
\* stages do.
AfterLoad_FallsBack(loaded) == IF loaded THEN "RESOLVING" ELSE "FALLING_BACK"

\* Lines 233-239: load_module_from_path returned a module, or None.
AfterLoad(loaded) == IF loaded THEN "RESOLVING" ELSE "FAILED"

\* Lines 241-246: `if not api_function` is true for None and for a falsy
\* callable; api_function.__name__ raises AttributeError when there is none.
AfterResolve(func) ==
  IF ~func.truthy THEN "FALLING_BACK"
  ELSE IF ~func.hasName THEN "KILLED"
  ELSE "INVOKING"

\* AfterInvoke without the else branch of lines 252-255.
AfterInvoke_NoFallback(ok) == IF ok THEN "SUCCEEDED" ELSE "FAILED"

\* AfterInvoke that runs the Flask scan whatever try_chatbot_function returned.
AfterInvoke_AlwaysFallsBack(ok) == "FALLING_BACK"

\* Lines 248-257
AfterInvoke(ok) == IF ok THEN "SUCCEEDED" ELSE "FALLING_BACK"

\* Lines 228, 244, 255: main returns what test_flask_endpoints returns.
AfterFallback(found) == IF found THEN "SUCCEEDED" ELSE "FAILED"

\* ExitStatus with the two statuses exchanged.
ExitStatus_Swapped(v) == IF v = "SUCCEEDED" THEN 1 ELSE 0

\* Line 261: sys.exit(0 if success else 1)
ExitStatus(v) == IF v = "SUCCEEDED" THEN 0 ELSE 1

\* Exit statuses of code that calls sys.exit itself.
ForeignExitCodes == {0, 3}

\* The exit status while the process runs.
Running == -1

VARIABLES
  repo_exists,          \* os.path.exists(REPO_DIR)
  tree,                 \* the repository tree, in walk order
  args,                 \* the command line
  pc,                   \* the stage about to run, or the way the run ended
  stages,               \* the stages entered so far, in order
  test_messages,        \* main's test_messages
  chatbot_module_path,  \* main's chatbot_module_path
  module,               \* main's module ("" while there is none)
  api_function,         \* main's api_function
  pos,                  \* try_chatbot_function's loop position
  success,              \* try_chatbot_function's success
  attempts,             \* the attempts made, in order
  endpoints,            \* test_flask_endpoints' chatbot_endpoints
  verdict,              \* "NONE", or what main returned: "SUCCEEDED" / "FAILED"
  exit_status,          \* the process exit status (Running while it runs)
  unit,                 \* the module under find_api_function when it runs alone
  content,              \* the lines under the route scan when it runs alone
  error_log,            \* the logger.error records so far, in order
  executed,             \* the code of the tree run so far: loads and calls
  disk,                 \* run_app: the files below the launch directory
  selected_file,        \* run_app: main's selected_file
  cwd,                  \* run_app: the working directory, from the launch directory
  command,              \* run_app: run_application's command
  launched,             \* run_app: the file the child process runs
  child,                \* run_app: the child process
  stdout_pipe,          \* run_app: the lines written to stdout and not yet read
  stderr_pipe,          \* run_app: the lines written to stderr and not yet read
  relayed               \* run_app: the lines run_application has printed, in order

vars ==
  << repo_exists, tree, args, pc, stages, test_messages, chatbot_module_path,
     module, api_function, pos, success, attempts, endpoints, verdict, exit_status,
     unit, content, error_log, executed, disk, selected_file, cwd, command, launched,
     child, stdout_pipe, stderr_pipe, relayed >>

\* The state of run_app.py: the launch of the application, and the relay of
\* its output.
runner == << disk, selected_file, cwd, command, launched >>

relay == << child, stdout_pipe, stderr_pipe, relayed >>

\* No path, no command, no child process.
NoFile == << >>

NoCommand == [path |-> NoFile, options |-> << >>]

NoChild == [program |-> << >>, state |-> "none", written |-> 0]

\* run_app.py has not run.
RunnerIdle ==
  /\ disk = {}
  /\ selected_file = NoFile
  /\ cwd = << >>
  /\ command = NoCommand
  /\ launched = NoFile

RelayIdle ==
  /\ child = NoChild
  /\ stdout_pipe = << >>
  /\ stderr_pipe = << >>
  /\ relayed = << >>

inputs == << repo_exists, tree, args, unit, content >>

\* Nothing has run yet; `at` is the step about to run.
AtRest(at) ==
  /\ pc = at
  /\ stages = << >>
  /\ test_messages = << >>
  /\ chatbot_module_path = NonePath
  /\ module = ""
  /\ api_function = NoneAttr
  /\ pos = LoopsDone
  /\ success = FALSE
  /\ attempts = << >>
  /\ endpoints = << >>
  /\ verdict = "NONE"
  /\ exit_status = Running
  /\ error_log = << >>
  /\ executed = << >>
  /\ RunnerIdle
  /\ RelayIdle

Init ==
  /\ repo_exists \in BOOLEAN
  /\ tree \in (IF repo_exists THEN Trees ELSE {<< >>})
  /\ args \in Args
  /\ unit = << >>
  /\ content = << >>
  /\ pc = "START"
  /\ stages = << >>
  /\ test_messages = << >>
  /\ chatbot_module_path = NonePath
  /\ module = ""
  /\ api_function = NoneAttr
  /\ pos = LoopsDone
  /\ success = FALSE
  /\ attempts = << >>
  /\ endpoints = << >>
  /\ verdict = "NONE"
  /\ exit_status = Running
  /\ error_log = << >>
  /\ executed = << >>
  /\ RunnerIdle
  /\ RelayIdle

\* Lines 221-223 going on to the search without the directory.
AfterStart_SearchesAnyway(exists) == "SEARCHING"

\* Lines 221-225: where main goes after the test of the repository directory.
AfterStart(exists) == IF exists THEN "SEARCHING" ELSE "FAILED"

\* Enter a stage; entering SUCCEEDED or FAILED is main returning that verdict
\* and line 261 exiting with its status.
Enter(stage) ==
  /\ pc' = stage
  /\ stages' = Append(stages, stage)
  /\ verdict' = IF stage \in {"SUCCEEDED", "FAILED"} THEN stage ELSE verdict
  /\ exit_status' =
       IF stage \in {"SUCCEEDED", "FAILED"} THEN ExitStatus(stage) ELSE exit_status

\* The process ends without main returning: an exception or SystemExit leaves
\* main.
Kill(status) ==
  /\ pc' = "KILLED"
  /\ stages' = stages
  /\ verdict' = verdict
  /\ exit_status' = status

\* Lines 204-223: argparse exits with status 2 on a bad command line; a
\* missing repository directory makes main return False.
Start ==
  /\ pc = "START"
  /\ IF args.usage_error
     THEN /\ Kill(2)
          /\ UNCHANGED << test_messages, error_log >>
     ELSE /\ test_messages' = TestMessages(args)
          /\ error_log' = IF repo_exists THEN error_log
                          ELSE Append(error_log, LogEntry(222, ""))
          /\ Enter(AfterStart(repo_exists))
  /\ UNCHANGED << inputs, runner, relay, chatbot_module_path, module, api_function, pos, success,
                  attempts, endpoints, executed >>

\* Lines 45-47: what find_chatbot_module logs.
SearchLog(exists) == IF exists THEN << >> ELSE << LogEntry(46, "") >>

\* Lines 225-230
Search ==
  /\ pc = "SEARCHING"
  /\ chatbot_module_path' = find_chatbot_module(repo_exists, tree)
  /\ error_log' = error_log \o SearchLog(repo_exists)
  /\ Enter(AfterSearch(chatbot_module_path'))
  /\ UNCHANGED << inputs, runner, relay, test_messages, module, api_function, pos, success,
                  attempts, endpoints, executed >>

\* Line 30: spec_from_file_location finds a loader by the file's suffix.
HasLoader(path) == EndsWith(BaseName(path), PySuffix)

\* How spec.loader.exec_module can end: the top-level code runs to its end
\* and leaves some module, raises an Exception, or raises SystemExit.
LoadOutcomes(path) ==
  IF ~HasLoader(path) THEN {"no_spec"}
  ELSE IF ~FileReadable(path.file) THEN {"raise"}
  ELSE {"ok", "raise", "exit"}

\* Lines 28-41: whether load_module_from_path returns a module.
Loaded(outcome) == outcome = "ok"

\* Line 35: exec_module runs the file's top-level code once, when the file
\* has a loader and can be read.
LoadExecutes(path) ==
  IF HasLoader(path) /\ FileReadable(path.file)
  THEN << [stage |-> "LOADING", code |-> path] >> ELSE << >>

\* Lines 39-40 and 236: what a load that gives no module logs.
LoadLog(outcome, path) ==
  (IF outcome = "raise" THEN << LogEntry(39, path) >> ELSE << >>)
  \o (IF Loaded(outcome) THEN << >> ELSE << LogEntry(236, "") >>)

\* Lines 232-239 with load_module_from_path (28-41)
Load ==
  /\ pc = "LOADING"
  /\ \E outcome \in LoadOutcomes(chatbot_module_path) :
       /\ executed' = executed \o LoadExecutes(chatbot_module_path)
       /\ IF outcome = "exit"
          THEN /\ \E status \in ForeignExitCodes : Kill(status)
               /\ UNCHANGED << module, error_log >>
          ELSE /\ module' \in (IF Loaded(outcome) THEN ModuleIds ELSE {""})
               /\ error_log' = error_log \o LoadLog(outcome, chatbot_module_path)
               /\ Enter(AfterLoad(Loaded(outcome)))
  /\ UNCHANGED << inputs, runner, relay, test_messages, chatbot_module_path, api_function, pos,
                  success, attempts, endpoints >>

\* Lines 241-248: find_api_function, and the entry into try_chatbot_function
\* (lines 110-115).
Resolve ==
  /\ pc = "RESOLVING"
  /\ api_function' = find_api_function(ModuleAttrs(module))
  /\ IF AfterResolve(api_function') = "KILLED"
     THEN Kill(1)
     ELSE Enter(AfterResolve(api_function'))
  /\ pos' = IF AfterResolve(api_function') = "INVOKING"
            THEN [m |-> 1, i |-> 1] ELSE pos
  /\ executed' = executed \o ResolveExecutes(ModuleAttrs(module))
  /\ UNCHANGED << inputs, runner, relay, test_messages, chatbot_module_path, module, success,
                  attempts, endpoints, error_log >>

\* One attempt of try_chatbot_function (lines 132-146); the attempt that ends
\* the loops also returns to main (lines 148, 248-257).
Attempt ==
  /\ pc = "INVOKING"
  /\ executed' = Append(executed, [stage |-> "INVOKING", code |-> api_function.name])
  /\ \E outcome \in CallOutcomes(api_function.kind, pos.i) :
       LET n    == Len(test_messages)
           next == IF AttemptSucceeds(outcome)
                   THEN AfterSuccess(pos.m, pos.i, n)
                   ELSE AfterFailure(pos.m, pos.i, n)
           ok   == success \/ AttemptSucceeds(outcome)
       IN  IF ~AttemptSucceeds(outcome) /\ ~AttemptCaught(outcome)
           THEN /\ \E status \in ForeignExitCodes : Kill(status)
                /\ UNCHANGED << pos, success, attempts, error_log >>
           ELSE /\ error_log' =
                     IF ~AttemptSucceeds(outcome) /\ LogsLastError(pos.m, pos.i, n)
                     THEN Append(error_log, LogEntry(141, pos)) ELSE error_log
                /\ attempts' = Append(attempts,
                     [m |-> pos.m, i |-> pos.i,
                      returned |-> CallReturned(outcome),
                      outcome |-> IF AttemptSucceeds(outcome)
                                  THEN "success" ELSE "failure"])
                /\ success' = ok
                /\ pos' = next
                /\ IF next = LoopsDone
                   THEN Enter(AfterInvoke(ok))
                   ELSE UNCHANGED << pc, stages, verdict, exit_status >>
  /\ UNCHANGED << inputs, runner, relay, test_messages, chatbot_module_path, module, api_function,
                  endpoints >>

\* Lines 228, 244, 255 with test_flask_endpoints (150-200)
Fallback ==
  /\ pc = "FALLING_BACK"
  /\ executed' = executed \o FallbackExecutes(tree)
  /\ IF ScanEscapes(tree)
     THEN /\ Kill(1)
          /\ UNCHANGED << endpoints, error_log >>
     ELSE /\ endpoints' = chatbot_endpoints(tree)
          /\ error_log' = error_log \o ScanLogOf(AppFiles(tree))
          /\ Enter(AfterFallback(test_flask_endpoints(tree)))
  /\ UNCHANGED << inputs, runner, relay, test_messages, chatbot_module_path, module, api_function,
                  pos, success, attempts >>

Next ==
  \/ Start
  \/ Search
  \/ Load
  \/ Resolve
  \/ Attempt
  \/ Fallback

Spec == Init /\ [][Next]_vars

(***************************************************************************)
(* The run over the one-file repositories of ScenarioTrees.                *)
(***************************************************************************)
InitScenario ==
  /\ repo_exists = TRUE
  /\ tree \in ScenarioTrees
  /\ args \in Args
  /\ unit = << >>
  /\ content = << >>
  /\ AtRest("START")

SpecScenario == InitScenario /\ [][Next]_vars

(***************************************************************************)
(* find_chatbot_module alone, over CascadeTrees.                           *)
(***************************************************************************)
NoArgs == [usage_error |-> FALSE, has_message |-> FALSE, message |-> ""]

InitCascade ==
  /\ repo_exists \in BOOLEAN
  /\ tree \in (IF repo_exists THEN CascadeTrees ELSE {<< >>})
  /\ args = NoArgs
  /\ unit = << >>
  /\ content = << >>
  /\ AtRest("find_chatbot_module")

\* Lines 43-82
FindModule ==
  /\ pc = "find_chatbot_module"
  /\ chatbot_module_path' = find_chatbot_module(repo_exists, tree)
  /\ error_log' = error_log \o SearchLog(repo_exists)
  /\ pc' = "returned"
  /\ UNCHANGED << inputs, runner, relay, stages, test_messages, module, api_function, pos, success,
                  attempts, endpoints, verdict, exit_status, executed >>

NextCascade == FindModule

SpecCascade == InitCascade /\ [][NextCascade]_vars

(***************************************************************************)
(* The scan of one application file (lines 176-190) alone, over files of   *)
(* up to MaxScanLines lines: route lines with and without keyword, lines   *)
(* that define a handler, and lines that do not.                           *)
(***************************************************************************)
RouteApiChat ==
  <<"@", "a", "p", "p", ".", "r", "o", "u", "t", "e", "(", "\"", "/", "a", "p", "i", "/", "c",
  "h", "a", "t", "\"", ")">>

DefHandleChat ==
  <<"d", "e", "f", " ", "h", "a", "n", "d", "l", "e", "_", "c", "h", "a", "t", "(", "r", "e",
  "q", "u", "e", "s", "t", ")", ":">>

RouteApiAsk ==
  <<"@", "a", "p", "p", ".", "r", "o", "u", "t", "e", "(", "\"", "/", "a", "p", "i", "/", "a",
  "s", "k", "\"", ")">>

DefChatHandler ==
  <<"d", "e", "f", " ", "c", "h", "a", "t", "_", "h", "a", "n", "d", "l", "e", "r", "(", ")",
  ":">>

BlankLine ==
  << >>

RouteMessage ==
  <<"@", "b", "l", "u", "e", "p", "r", "i", "n", "t", ".", "r", "o", "u", "t", "e", "(", "'",
  "/", "m", "e", "s", "s", "a", "g", "e", "'", ")">>

CommentLine ==
  <<"#", " ", "r", "e", "t", "i", "r", "e", "d">>

ScanLines ==
  {RouteApiChat, DefHandleChat, RouteApiAsk, DefChatHandler, BlankLine, RouteMessage,
   CommentLine}

MaxScanLines == 4

Contents == UNION {[1..n -> ScanLines] : n \in 0..MaxScanLines}

\* The path of the file under scan.
ScannedPath == JoinPath(1, "app.py")

\* f.readlines() over the lines of `content`.
WithNewlines(lines) == [i \in 1..Len(lines) |-> lines[i] \o <<"\n">>]

InitRoutes ==
  /\ repo_exists = TRUE
  /\ tree = << <<"app.py">> >>
  /\ args = NoArgs
  /\ unit = << >>
  /\ content \in Contents
  /\ AtRest("scan")

\* Lines 176-190 for the file; open() succeeds or raises.
ScanFile ==
  /\ pc = "scan"
  /\ \E opened \in BOOLEAN :
       LET scan == ScanOfFile(ScannedPath, opened, WithNewlines(content))
       IN  IF scan.escapes
           THEN /\ Kill(1)
                /\ UNCHANGED << endpoints, error_log >>
           ELSE /\ endpoints' = scan.endpoints
                /\ error_log' = error_log \o scan.log
                /\ pc' = "returned"
                /\ UNCHANGED << stages, verdict, exit_status >>
  /\ UNCHANGED << inputs, runner, relay, test_messages, chatbot_module_path, module,
                  api_function, pos,
                  success, attempts, executed >>

NextRoutes == ScanFile

SpecRoutes == InitRoutes /\ [][NextRoutes]_vars

(***************************************************************************)
(* try_chatbot_function alone, over callables of every kind and message    *)
(* lists of up to MaxMessages messages.                                    *)
(***************************************************************************)
MaxMessages == 2

\* What the caller passes as func: None, a function of each kind, and a
\* callable object that is falsy (its class defines __bool__ or __len__).
EngineFuncs ==
  { NoneAttr,
    Attr(<<"c", "h", "a", "t">>, TRUE, TRUE, TRUE, "any1"),
    Attr(<<"c", "h", "a", "t">>, TRUE, TRUE, TRUE, "str2"),
    Attr(<<"c", "h", "a", "t">>, TRUE, TRUE, TRUE, "raises"),
    Attr(<<"c", "h", "a", "t">>, TRUE, TRUE, TRUE, "exits"),
    Attr(<<"c", "h", "a", "t">>, TRUE, TRUE, TRUE, "unknown"),
    Attr(<<"c", "h", "a", "t">>, TRUE, FALSE, FALSE, "any1") }

EngineMessages == {SubSeq(SampleMessages, 1, n) : n \in 0..MaxMessages}

InitEngine ==
  /\ repo_exists = TRUE
  /\ tree = << << >> >>
  /\ args = NoArgs
  /\ unit = << >>
  /\ content = << >>
  /\ pc = "try_chatbot_function"
  /\ stages = << >>
  /\ test_messages \in EngineMessages
  /\ chatbot_module_path = NonePath
  /\ module = ""
  /\ api_function \in EngineFuncs
  /\ pos = LoopsDone
  /\ success = FALSE
  /\ attempts = << >>
  /\ endpoints = << >>
  /\ verdict = "NONE"
  /\ exit_status = Running
  /\ error_log = << >>
  /\ executed = << >>
  /\ RunnerIdle
  /\ RelayIdle

\* try_chatbot_function making attempts whatever func is.
EngineRuns_AnyFunc(func, messages) == messages # << >>

\* Lines 110-115: the loops are entered when func is truthy and there is a
\* message.
EngineRuns(func, messages) == func.truthy /\ messages # << >>

\* Lines 108-115, and line 148 when no attempt is made.
CallEngine ==
  /\ pc = "try_chatbot_function"
  /\ success' = FALSE
  /\ IF EngineRuns(api_function, test_messages)
     THEN pc' = "INVOKING" /\ pos' = [m |-> 1, i |-> 1]
     ELSE pc' = "returned" /\ pos' = LoopsDone
  /\ UNCHANGED << inputs, runner, relay, stages, test_messages, chatbot_module_path, module,
                  api_function, attempts, endpoints, verdict, exit_status, error_log,
                  executed >>

NextEngine ==
  \/ CallEngine
  \/ Attempt

SpecEngine == InitEngine /\ [][NextEngine]_vars

(***************************************************************************)
(* run_app.py: run_application up to the start of the child process.       *)
(* A path is the sequence of its components; a relative path is resolved   *)
(* against the working directory, itself a path from the directory the     *)
(* script was started in.                                                  *)
(***************************************************************************)
REPO_DIR == "CoreShare"

entry_point_patterns ==
  << "app.py", "main.py", "server.py", "run.py", "wsgi.py", "application.py",
     "index.py", "start.py" >>

\* The places a file can lie at: an entry point in the repository or in a
\* subdirectory of it, and the places those paths name when they are read
\* from the entry point's own directory.
DiskPaths ==
  { << "CoreShare", "app.py" >>,
    << "CoreShare", "CoreShare", "app.py" >>,
    << "CoreShare", "src", "main.py" >>,
    << "CoreShare", "src", "CoreShare", "src", "main.py" >> }

\* A file: its path, and whether its text has a Flask import.
Disks ==
  {d \in SUBSET [path : DiskPaths, flask : BOOLEAN] :
     \A f, g \in d : f.path = g.path => f = g}

\* Lines 53-56 of find_app_files: the files below REPO_DIR with the name of
\* an entry point, as os.path.join(root, pattern); main (201-212) selects
\* one of them.
EntryPoints(d) ==
  {f.path : f \in {g \in d :
     /\ g.path[1] = REPO_DIR
     /\ \E p \in 1..Len(entry_point_patterns) :
          entry_point_patterns[p] = g.path[Len(g.path)]}}

\* Path(file_path).parent
Parent(path) == SubSeq(path, 1, Len(path) - 1)

\* The file a relative path names in working directory dir.
ResolvePath(dir, path) == dir \o path

\* Lines 77-84: open() of a file that does not exist raises and False is
\* returned.
check_for_flask_app(d, dir, file_path) ==
  \E f \in d : f.path = ResolvePath(dir, file_path) /\ f.flask

FlaskOptions == << "--host=0.0.0.0", "--port=5000" >>

\* Lines 86-98
find_run_command(d, dir, file_path) ==
  [path    |-> file_path,
   options |-> IF check_for_flask_app(d, dir, file_path) THEN FlaskOptions ELSE << >>]

InitRunner ==
  /\ repo_exists = TRUE
  /\ tree = << << >> >>
  /\ args = NoArgs
  /\ unit = << >>
  /\ content = << >>
  /\ pc = "run_application"
  /\ stages = << >>
  /\ test_messages = << >>
  /\ chatbot_module_path = NonePath
  /\ module = ""
  /\ api_function = NoneAttr
  /\ pos = LoopsDone
  /\ success = FALSE
  /\ attempts = << >>
  /\ endpoints = << >>
  /\ verdict = "NONE"
  /\ exit_status = Running
  /\ error_log = << >>
  /\ executed = << >>
  /\ disk \in Disks
  /\ selected_file \in EntryPoints(disk)
  /\ cwd = << >>
  /\ command = NoCommand
  /\ launched = NoFile
  /\ RelayIdle

\* Line 102: os.chdir(Path(file_path).parent)
ChangeDir ==
  /\ pc = "run_application"
  /\ cwd' = ResolvePath(cwd, Parent(selected_file))
  /\ pc' = "find_run_command"
  /\ UNCHANGED << inputs, relay, stages, test_messages, chatbot_module_path, module,
                  api_function, pos, success, attempts, endpoints, verdict, exit_status,
                  error_log, executed, disk, selected_file, command, launched >>

\* Lines 104-105
FindRunCommand ==
  /\ pc = "find_run_command"
  /\ command' = find_run_command(disk, cwd, selected_file)
  /\ pc' = "Popen"
  /\ UNCHANGED << inputs, relay, stages, test_messages, chatbot_module_path, module,
                  api_function, pos, success, attempts, endpoints, verdict, exit_status,
                  error_log, executed, disk, selected_file, cwd, launched >>

\* Lines 109-115: the child process inherits the working directory and opens
\* the path of the command in it; when no file is there the interpreter
\* ends with "can't open file".
Launch ==
  /\ pc = "Popen"
  /\ launched' = IF \E f \in disk : f.path = ResolvePath(cwd, command.path)
                 THEN ResolvePath(cwd, command.path) ELSE NoFile
  /\ pc' = "relaying"
  /\ UNCHANGED << inputs, relay, stages, test_messages, chatbot_module_path, module,
                  api_function, pos, success, attempts, endpoints, verdict, exit_status,
                  error_log, executed, disk, selected_file, cwd, command >>

NextRunner ==
  \/ ChangeDir
  \/ FindRunCommand
  \/ Launch

SpecRunner == InitRunner /\ [][NextRunner]_vars

(***************************************************************************)
(* run_app.py: the relay loop of run_application and the child process.    *)
(* The child writes lines to its stdout and stderr, each a pipe that holds *)
(* up to PipeCapacity unread lines, and then exits; a write to a full pipe *)
(* blocks.  The parent reads one line of stdout, then one line of stderr,  *)
(* then polls the child; a read of an empty pipe blocks until a line is    *)
(* written or the child has exited, which closes the pipe.                 *)
(***************************************************************************)
MaxWrites == 3

PipeCapacity == 1

\* What a child does before it exits: the streams it writes a line to, in
\* order.
Programs == UNION {[1..n -> {"out", "err"}] : n \in 0..MaxWrites}

InitRelay ==
  /\ repo_exists = TRUE
  /\ tree = << << >> >>
  /\ args = NoArgs
  /\ unit = << >>
  /\ content = << >>
  /\ pc = "stdout.readline"
  /\ stages = << >>
  /\ test_messages = << >>
  /\ chatbot_module_path = NonePath
  /\ module = ""
  /\ api_function = NoneAttr
  /\ pos = LoopsDone
  /\ success = FALSE
  /\ attempts = << >>
  /\ endpoints = << >>
  /\ verdict = "NONE"
  /\ exit_status = Running
  /\ error_log = << >>
  /\ executed = << >>
  /\ RunnerIdle
  /\ child \in {[program |-> p, state |-> "running", written |-> 0] : p \in Programs}
  /\ stdout_pipe = << >>
  /\ stderr_pipe = << >>
  /\ relayed = << >>

\* The child writes the next line of its program; the line is numbered by
\* its place among the lines written.  The write blocks while the pipe is
\* full.
ChildWrite ==
  /\ child.state = "running"
  /\ child.program # << >>
  /\ LET line == child.written + 1
     IN  IF Head(child.program) = "out"
         THEN /\ Len(stdout_pipe) < PipeCapacity
              /\ stdout_pipe' = Append(stdout_pipe, line)
              /\ UNCHANGED stderr_pipe
         ELSE /\ Len(stderr_pipe) < PipeCapacity
              /\ stderr_pipe' = Append(stderr_pipe, line)
              /\ UNCHANGED stdout_pipe
  /\ child' = [child EXCEPT !.program = Tail(@), !.written = @ + 1]
  /\ UNCHANGED << inputs, runner, pc, stages, test_messages, chatbot_module_path,
                  module, api_function, pos, success, attempts, endpoints, verdict,
                  exit_status, error_log, executed, relayed >>

\* The child has written all it had to write and exits; its ends of the
\* pipes are closed.
ChildExit ==
  /\ child.state = "running"
  /\ child.program = << >>
  /\ child' = [child EXCEPT !.state = "exited"]
  /\ UNCHANGED << inputs, runner, pc, stages, test_messages, chatbot_module_path,
                  module, api_function, pos, success, attempts, endpoints, verdict,
                  exit_status, error_log, executed, stdout_pipe, stderr_pipe, relayed >>

\* Lines 121-123: process.stdout.readline() returns a line, or '' at the end
\* of the file, and a line is printed.
ReadStdout ==
  /\ pc = "stdout.readline"
  /\ IF stdout_pipe # << >>
     THEN /\ relayed' = Append(relayed, [stream |-> "out", line |-> Head(stdout_pipe)])
          /\ stdout_pipe' = Tail(stdout_pipe)
     ELSE /\ child.state = "exited"
          /\ UNCHANGED << relayed, stdout_pipe >>
  /\ pc' = "stderr.readline"
  /\ UNCHANGED << inputs, runner, stages, test_messages, chatbot_module_path,
                  module, api_function, pos, success, attempts, endpoints, verdict,
                  exit_status, error_log, executed, child, stderr_pipe >>

\* Lines 125-127
ReadStderr ==
  /\ pc = "stderr.readline"
  /\ IF stderr_pipe # << >>
     THEN /\ relayed' = Append(relayed, [stream |-> "err", line |-> Head(stderr_pipe)])
          /\ stderr_pipe' = Tail(stderr_pipe)
     ELSE /\ child.state = "exited"
          /\ UNCHANGED << relayed, stderr_pipe >>
  /\ pc' = "poll"
  /\ UNCHANGED << inputs, runner, stages, test_messages, chatbot_module_path,
                  module, api_function, pos, success, attempts, endpoints, verdict,
                  exit_status, error_log, executed, child, stdout_pipe >>

\* Lines 130-133: the loop ends when the child has terminated, else it
\* sleeps and goes round again.
Poll ==
  /\ pc = "poll"
  /\ pc' = IF child.state = "exited" THEN "returned" ELSE "stdout.readline"
  /\ UNCHANGED << inputs, runner, relay, stages, test_messages, chatbot_module_path,
                  module, api_function, pos, success, attempts, endpoints, verdict,
                  exit_status, error_log, executed >>

NextRelay ==
  \/ ChildWrite
  \/ ChildExit
  \/ ReadStdout
  \/ ReadStderr
  \/ Poll

SpecRelay == InitRelay /\ [][NextRelay]_vars

(***************************************************************************)
(* find_api_function alone, over Units.                                    *)
(***************************************************************************)
InitResolver ==
  /\ repo_exists = TRUE
  /\ tree = << << >> >>
  /\ args = NoArgs
  /\ unit \in Units
  /\ content = << >>
  /\ AtRest("find_api_function")

\* Lines 84-106
FindFunction ==
  /\ pc = "find_api_function"
  /\ api_function' = find_api_function(unit)
  /\ pc' = "returned"
  /\ UNCHANGED << inputs, runner, relay, stages, test_messages, chatbot_module_path, module, pos,
                  success, attempts, endpoints, verdict, exit_status, error_log,
                  executed >>

NextResolver == FindFunction

SpecResolver == InitResolver /\ [][NextResolver]_vars

(***************************************************************************)
(* Vocabulary of the properties.                                           *)
(***************************************************************************)
InStages(s) == \E k \in 1..Len(stages) : stages[k] = s

\* main has returned a verdict.
Completed == pc \in {"SUCCEEDED", "FAILED"}

\* The stage has been entered and has ended.
SearchDone == InStages("SEARCHING") /\ pc # "SEARCHING"

ResolveDone == InStages("RESOLVING") /\ pc # "RESOLVING"

FallbackDone == InStages("FALLING_BACK") /\ pc # "FALLING_BACK"

\* load_module_from_path has returned None.
LoadFailed == InStages("LOADING") /\ pc \notin {"LOADING", "KILLED"} /\ module = ""

\* try_chatbot_function has run and has returned.
EngineReturned == InStages("INVOKING") /\ pos = LoopsDone

AllFailed == \A k \in 1..Len(attempts) : attempts[k].outcome = "failure"

\* What the fallback reported: whether it extracted a route declaration.
FallbackVerdict == IF endpoints # << >> THEN "SUCCEEDED" ELSE "FAILED"

CoriPy == <<"c", "o", "r", "i", ".", "p", "y">>

IsPatternName(n) == \E p \in 1..Len(patterns) : patterns[p] = n

HasExactName(t) ==
  \E d \in 1..Len(t) : \E k \in 1..Len(t[d]) : IsPatternName(FileName(t[d][k]))

(***************************************************************************)
(* C1.  An attempt that completes without raising is the last attempt of   *)
(* the run: no later pattern and no later message is tried, and the engine *)
(* reports success.  For a callable with one positional parameter the only *)
(* attempt ever made is pattern 1 on the first message, and it succeeds.   *)
(***************************************************************************)
C1_StopsAtFirstSuccess ==
  /\ \A k \in 1..Len(attempts) :
        attempts[k].outcome = "success" =>
          /\ k = Len(attempts)
          /\ success
          /\ pos = LoopsDone
          /\ pc = "SUCCEEDED"
  /\ (InStages("INVOKING") /\ api_function.kind = "any1") =>
        \/ pc = "INVOKING" /\ attempts = << >>
        \/ attempts = << [m |-> 1, i |-> 1, returned |-> TRUE, outcome |-> "success"] >>

\* A success after failed attempts, with patterns and messages left untried.
C1_Witness ==
  /\ pc = "SUCCEEDED"
  /\ Len(attempts) >= 2
  /\ attempts[Len(attempts)].outcome = "success"
  /\ attempts[Len(attempts)].i < PatternCount
  /\ attempts[Len(attempts)].m < Len(test_messages)

(***************************************************************************)
(* C2.  The attempts made are a prefix of (message 1, patterns 1..5),      *)
(* (message 2, patterns 1..5), ... in the order of test_messages, no       *)
(* (message, pattern) pair occurs twice, and when every attempt fails the  *)
(* attempts are the whole enumeration: 5 times the number of messages.     *)
(***************************************************************************)
C2_AttemptsFollowEnumeration ==
  /\ \A k \in 1..Len(attempts) :
        /\ attempts[k].m = ((k - 1) \div PatternCount) + 1
        /\ attempts[k].i = ((k - 1) % PatternCount) + 1
        /\ attempts[k].m <= Len(test_messages)
  /\ \A j, k \in 1..Len(attempts) :
        (attempts[j].m = attempts[k].m /\ attempts[j].i = attempts[k].i) => j = k
  /\ (EngineReturned /\ AllFailed) =>
        Len(attempts) = PatternCount * Len(test_messages)

\* Every pattern has failed for each of six messages.
C2_Witness ==
  /\ EngineReturned
  /\ AllFailed
  /\ Len(test_messages) = Len(SampleMessages) + 1
  /\ Len(attempts) = PatternCount * Len(test_messages)

(***************************************************************************)
(* C3.  try_chatbot_function returns failure exactly when every pattern    *)
(* has failed for every message; after the fifth pattern fails for a       *)
(* message that is not the last, the engine goes on with the next message. *)
(***************************************************************************)
C3_FailureOnlyWhenExhausted ==
  /\ EngineReturned =>
        (~success <=> (AllFailed /\ Len(attempts) = PatternCount * Len(test_messages)))
  /\ (InStages("INVOKING") /\ ~success /\ pc # "KILLED"
        /\ Len(attempts) < PatternCount * Len(test_messages)) =>
        /\ pc = "INVOKING"
        /\ pos = [m |-> (Len(attempts) \div PatternCount) + 1,
                  i |-> (Len(attempts) % PatternCount) + 1]

\* A success on a later message, after all five patterns failed for the first.
C3_Witness ==
  /\ EngineReturned
  /\ success
  /\ Len(attempts) > PatternCount
  /\ attempts[Len(attempts)].m = 2

(***************************************************************************)
(* C4.  When some file of the tree has exactly a pattern name,             *)
(* find_chatbot_module returns a file of the tree with a pattern name.     *)
(***************************************************************************)
C4_ExactNameWins ==
  (SearchDone /\ HasExactName(tree)) =>
     /\ chatbot_module_path # NonePath
     /\ chatbot_module_path.dir \in 1..Len(tree)
     /\ InFiles(BaseName(chatbot_module_path), tree[chatbot_module_path.dir])
     /\ IsPatternName(BaseName(chatbot_module_path))

\* The repository directory lists a file that matches by partial name or by
\* content only; the exact name sits in a later, deeper directory.
C4_Witness ==
  /\ SearchDone
  /\ Len(tree) >= 2
  /\ Len(tree[1]) >= 1
  /\ ~IsPatternName(FileName(tree[1][1]))
  /\ IsPartialMatch(tree[1][1]) \/ IsContentMatch(tree[1][1])
  /\ chatbot_module_path.dir = 2
  /\ BaseName(chatbot_module_path) = CoriPy

(***************************************************************************)
(* C5.  When load_module_from_path returns no module, main returns FAILED  *)
(* at once: no function is resolved, nothing is invoked and the Flask scan *)
(* is not run, whatever routes the tree holds.                             *)
(***************************************************************************)
C5_LoadFailureIsFinal ==
  LoadFailed =>
     /\ pc = "FAILED"
     /\ verdict = "FAILED"
     /\ stages = << "SEARCHING", "LOADING", "FAILED" >>
     /\ api_function = NoneAttr
     /\ attempts = << >>
     /\ endpoints = << >>

\* The load failed in a tree whose Flask scan would have found a route.
C5_Witness == LoadFailed /\ test_flask_endpoints(tree)

(***************************************************************************)
(* C6.  When find_chatbot_module finds nothing, the stage after SEARCHING  *)
(* is the Flask scan: nothing is loaded, resolved or invoked, and the      *)
(* verdict is the result of the scan.                                      *)
(***************************************************************************)
C6_NotFoundGoesToFallback ==
  (SearchDone /\ chatbot_module_path = NonePath) =>
     /\ Len(stages) >= 2
     /\ stages[2] = "FALLING_BACK"
     /\ ~InStages("LOADING")
     /\ ~InStages("RESOLVING")
     /\ ~InStages("INVOKING")
     /\ module = ""
     /\ api_function = NoneAttr
     /\ attempts = << >>
     /\ pc \in {"FALLING_BACK", "SUCCEEDED", "FAILED"}
     /\ Completed => verdict = FallbackVerdict

\* No module file, and the scan extracts a route.
C6_Witness ==
  /\ SearchDone
  /\ chatbot_module_path = NonePath
  /\ pc = "SUCCEEDED"
  /\ endpoints # << >>

(***************************************************************************)
(* C7.  After a successful load, find_api_function finding nothing and     *)
(* try_chatbot_function failing with every pattern both lead to the Flask  *)
(* scan, and the verdict is then the result of the scan.                   *)
(***************************************************************************)
C7_LaterFailuresFallBack ==
  /\ (ResolveDone /\ api_function = NoneAttr) =>
        /\ SubSeq(stages, 1, 4) = << "SEARCHING", "LOADING", "RESOLVING", "FALLING_BACK" >>
        /\ Completed => verdict = FallbackVerdict
  /\ (EngineReturned /\ ~success) =>
        /\ SubSeq(stages, 1, 5) =
             << "SEARCHING", "LOADING", "RESOLVING", "INVOKING", "FALLING_BACK" >>
        /\ pc \in {"FALLING_BACK", "SUCCEEDED", "FAILED"}
        /\ Completed => verdict = FallbackVerdict

\* Every pattern failed for every message, and the scan then found a route.
C7_Witness ==
  /\ EngineReturned
  /\ ~success
  /\ AllFailed
  /\ pc = "SUCCEEDED"

(***************************************************************************)
(* C8.  When try_chatbot_function returns success the verdict is SUCCEEDED *)
(* and the Flask scan is not run.  With cori.py in the repository          *)
(* directory and a loaded module that defines chat(message), the run goes  *)
(* through INVOKING, pattern 1 succeeds on the first message and the       *)
(* verdict is SUCCEEDED.                                                   *)
(***************************************************************************)
C8_SuccessNeedsNoFallback ==
  /\ (EngineReturned /\ success) =>
        /\ pc = "SUCCEEDED"
        /\ verdict = "SUCCEEDED"
        /\ ~InStages("FALLING_BACK")
        /\ endpoints = << >>
  /\ (repo_exists /\ InFiles(CoriPy, tree[1]) /\ SearchDone) =>
        chatbot_module_path = JoinPath(1, "cori.py")
  /\ (module = "echo" /\ pc \notin {"RESOLVING", "INVOKING"}) =>
        /\ stages = << "SEARCHING", "LOADING", "RESOLVING", "INVOKING", "SUCCEEDED" >>
        /\ attempts = << [m |-> 1, i |-> 1, returned |-> TRUE, outcome |-> "success"] >>
        /\ verdict = "SUCCEEDED"

\* Scenario A, without --message: the first message is the first sample.
C8_Witness ==
  /\ repo_exists
  /\ InFiles(CoriPy, tree[1])
  /\ chatbot_module_path = JoinPath(1, "cori.py")
  /\ module = "echo"
  /\ test_messages = SampleMessages
  /\ pc = "SUCCEEDED"
  /\ attempts = << [m |-> 1, i |-> 1, returned |-> TRUE, outcome |-> "success"] >>

(***************************************************************************)
(* C9.  Once the Flask scan has run, the verdict is SUCCEEDED exactly when *)
(* the scan extracted at least one route declaration and FAILED exactly    *)
(* when it extracted none; an empty repository directory yields FAILED.    *)
(***************************************************************************)
C9_FallbackVerdict ==
  /\ FallbackDone =>
        /\ Completed
        /\ verdict = "SUCCEEDED" <=> endpoints # << >>
        /\ verdict = "FAILED" <=> endpoints = << >>
  /\ (tree = << << >> >> /\ pc \notin {"START", "SEARCHING", "FALLING_BACK", "KILLED"}) =>
        /\ stages = << "SEARCHING", "FALLING_BACK", "FAILED" >>
        /\ verdict = "FAILED"

\* The scan found a Flask file but no route declaration in it.
C9_Witness ==
  /\ FallbackDone
  /\ AppFiles(tree) # << >>
  /\ endpoints = << >>
  /\ verdict = "FAILED"

(***************************************************************************)
(* C10.  When main has returned, the exit status is 0 if the verdict is    *)
(* SUCCEEDED (the invocation succeeded, or the Flask scan extracted a      *)
(* route) and 1 if it is FAILED, and it is never anything else; no exit    *)
(* status exists before the run has ended.                                 *)
(***************************************************************************)
C10_ExitStatusIsVerdict ==
  /\ Completed =>
        /\ verdict = pc
        /\ exit_status \in {0, 1}
        /\ exit_status = 0 <=> verdict = "SUCCEEDED"
        /\ exit_status = 1 <=> verdict = "FAILED"
        /\ verdict = "SUCCEEDED" <=>
             \/ EngineReturned /\ success
             \/ FallbackDone /\ endpoints # << >>
  /\ pc \notin {"SUCCEEDED", "FAILED", "KILLED"} =>
        (exit_status = Running /\ verdict = "NONE")
  /\ pc = "KILLED" => verdict = "NONE"

\* A run that ends SUCCEEDED through the Flask scan, with status 0.
C10_Witness ==
  /\ pc = "SUCCEEDED"
  /\ InStages("FALLING_BACK")
  /\ ~success
  /\ exit_status = 0

\* The last stage entered ("" before the first).
LastStage == IF stages = << >> THEN "" ELSE stages[Len(stages)]

\* The forward order of the stages; the two verdicts share the last place.
StageRank(s) ==
  CASE s = "SEARCHING"    -> 1
    [] s = "LOADING"      -> 2
    [] s = "RESOLVING"    -> 3
    [] s = "INVOKING"     -> 4
    [] s = "FALLING_BACK" -> 5
    [] s \in {"SUCCEEDED", "FAILED"} -> 6

\* The run ended without a verdict inside the stage s.
KilledIn(s) == pc = "KILLED" /\ LastStage = s

(***************************************************************************)
(* C11.  A run is one pass: the stages SEARCHING, LOADING, RESOLVING,      *)
(* INVOKING, FALLING_BACK are entered at most once each and only in this   *)
(* order; and unless loaded code or an invoked callable does not return    *)
(* (the run stops inside LOADING or INVOKING), a run that was started with *)
(* a valid command line ends in no other way than by one of the verdicts   *)
(* SUCCEEDED, FAILED, which is then the last stage of the run.             *)
(***************************************************************************)
C11_OnePassToAVerdict ==
  /\ \A j, k \in 1..Len(stages) : j < k => StageRank(stages[j]) < StageRank(stages[k])
  /\ Completed => (verdict = pc /\ LastStage = pc)
  /\ (pc = "KILLED" /\ ~args.usage_error) => LastStage \in {"LOADING", "INVOKING"}

(***************************************************************************)
(* C12.  Whatever the tree holds, a run started with a valid command line  *)
(* ends with a verdict: it never ends by an exception or an exit request   *)
(* leaving main.                                                           *)
(***************************************************************************)
C12_RunEndsWithAVerdict ==
  /\ pc = "KILLED" => args.usage_error
  /\ pc \in {"SUCCEEDED", "FAILED"} => verdict = pc

(***************************************************************************)
(* C13.  load_module_from_path returns to main whatever the file's         *)
(* top-level code raises: the run never ends inside LOADING, and after     *)
(* LOADING main holds a module or the failure value.                       *)
(***************************************************************************)
C13_LoaderNeverPropagates ==
  /\ ~KilledIn("LOADING")
  /\ (InStages("LOADING") /\ pc # "LOADING") =>
        (module \in ModuleIds \/ (module = "" /\ pc = "FAILED"))

(***************************************************************************)
(* C14.  Nothing the invoked callable raises leaves try_chatbot_function:  *)
(* the run never ends inside INVOKING, and every attempt made so far is in *)
(* the record as a success or a failure.                                   *)
(***************************************************************************)
C14_NothingEscapesTheEngine ==
  /\ ~KilledIn("INVOKING")
  /\ pc = "INVOKING" => (AllFailed /\ ~success)

RouteLineChat == <<"@", "a", "p", "p", ".", "r", "o", "u", "t", "e", "(", "\"", "/", "c", "h", "a", "t", "\"", ")">>

DefRespond == <<"d", "e", "f", " ", "r", "e", "s", "p", "o", "n", "d", "(", ")", ":">>

\* The file has the line @app.route("/chat") followed by the line
\* def respond():
HasScenarioLines(f) ==
  \E i \in 1..(Len(FileLines(f)) - 1) :
     FileLines(f)[i] = RouteLineChat /\ FileLines(f)[i + 1] = DefRespond

ChatbotNamed(f) ==
  IsPatternName(FileName(f)) \/ ContainsAny(Lower(FileName(f)), NameKeywords)

\* Scenario B: the run was started on a repository whose one file is a
\* source file that is not chatbot-named and has the two lines.
ScenarioB ==
  /\ repo_exists
  /\ ~args.usage_error
  /\ Len(tree) = 1
  /\ Len(tree[1]) = 1
  /\ EndsWith(FileName(tree[1][1]), PySuffix)
  /\ ~ChatbotNamed(tree[1][1])
  /\ HasScenarioLines(tree[1][1])

\* The course the claim gives for scenario B.
ScenarioOutcome ==
  /\ stages = <<"SEARCHING", "FALLING_BACK", "SUCCEEDED">>
  /\ endpoints = << [route |-> <<"/", "c", "h", "a", "t">>,
                     func_name |-> <<"r", "e", "s", "p", "o", "n", "d">>,
                     file_path |-> JoinPath(1, tree[1][1])] >>

RunEnded == pc \in {"SUCCEEDED", "FAILED", "KILLED"}

\* What else the file must and must not hold for that course: a Flask
\* import, none of the phrases of the content search, and no other line that
\* is a route decorator with one of the words chat, message, cori.
ScenarioProviso(f) ==
  /\ FileReadable(f)
  /\ ContainsAny(Lower(JoinLines(FileLines(f))), FlaskImports)
  /\ ~ContainsAny(Lower(JoinLines(FileLines(f))), ContentPhrases)
  /\ \A i \in 1..Len(FileLines(f)) :
       (/\ ContainsAny(Lower(FileLines(f)[i]), RouteMarkers)
        /\ ContainsAny(Lower(FileLines(f)[i]), RouteKeywords))
       => FileLines(f)[i] = RouteLineChat
  /\ Cardinality({i \in 1..Len(FileLines(f)) : FileLines(f)[i] = RouteLineChat}) = 1

(***************************************************************************)
(* C15 as claimed.  In scenario B, whatever else the file holds, the       *)
(* search finds nothing and the run ends SUCCEEDED after the stages        *)
(* SEARCHING, FALLING_BACK with exactly one route: /chat, respond.         *)
(***************************************************************************)
C15_ScenarioB_WhateverElse ==
  /\ (ScenarioB /\ SearchDone) => chatbot_module_path = NonePath
  /\ (ScenarioB /\ RunEnded) => ScenarioOutcome

(***************************************************************************)
(* C15.  In scenario B, when the file also has a Flask import, has none of *)
(* the phrases of the content search and has no other chat, message or     *)
(* cori route line, the search finds nothing and the run ends SUCCEEDED    *)
(* after the stages SEARCHING, FALLING_BACK with exactly one route: /chat, *)
(* respond.                                                                *)
(***************************************************************************)
C15_ScenarioB ==
  (ScenarioB /\ ScenarioProviso(tree[1][1])) =>
     /\ SearchDone => chatbot_module_path = NonePath
     /\ RunEnded => ScenarioOutcome

\* Such a run has ended, on the file that also has a route without keyword.
C15_Witness ==
  /\ ScenarioB
  /\ ScenarioProviso(tree[1][1])
  /\ tree[1][1] = "server_health"
  /\ pc = "SUCCEEDED"
  /\ Len(endpoints) = 1

\* The callables of the unit whose name is in the candidate list.
CanonicalCallables(u) ==
  {k \in 1..Len(u) :
     u[k].callable /\ \E c \in 1..Len(function_candidates) : function_candidates[c] = u[k].name}

\* The place of a name in the candidate list.
CandidateRank(n) ==
  CHOOSE c \in 1..Len(function_candidates) : function_candidates[c] = n

\* find_api_function has returned.
Resolved == pc = "returned"

(***************************************************************************)
(* C16.  When the module has callables under one or more names of the      *)
(* candidate list, find_api_function returns the one whose name comes      *)
(* first in the candidate list, wherever the module defines it and         *)
(* wherever its name sorts.                                                *)
(***************************************************************************)
C16_CandidateListOrderWins ==
  (Resolved /\ CanonicalCallables(unit) # {}) =>
     \E k \in CanonicalCallables(unit) :
        /\ api_function = unit[k]
        /\ \A o \in CanonicalCallables(unit) :
             CandidateRank(unit[k].name) <= CandidateRank(unit[o].name)

\* chat is returned although answer is defined before it and sorts before it.
C16_Witness ==
  /\ Resolved
  /\ Len(unit) >= 2
  /\ unit[1].name = <<"a", "n", "s", "w", "e", "r">>
  /\ unit[1].callable
  /\ unit[2].name = <<"c", "h", "a", "t">>
  /\ unit[2].callable
  /\ api_function = unit[2]

\* The callables of the unit that only the second pass can return: the name
\* is not private and, in lower case, holds one of the keywords.
KeywordCallables(u) ==
  {k \in 1..Len(u) :
     /\ u[k].callable
     /\ u[k].name[1] # "_"
     /\ \E w \in 1..Len(AttrKeywords) : Contains(Lower(u[k].name), AttrKeywords[w])}

\* The second pass decides, between two or more callables.
SecondPassChoice ==
  /\ Resolved
  /\ CanonicalCallables(unit) = {}
  /\ Cardinality(KeywordCallables(unit)) >= 2

(***************************************************************************)
(* C17 as claimed.  When no callable has a name of the candidate list and  *)
(* several callables have keyword names, find_api_function returns the one *)
(* the module defines first.                                               *)
(***************************************************************************)
C17_FirstDefinedWins ==
  SecondPassChoice =>
     \E k \in KeywordCallables(unit) :
        /\ api_function = unit[k]
        /\ \A o \in KeywordCallables(unit) : k <= o

(***************************************************************************)
(* C17.  When no callable has a name of the candidate list and several     *)
(* callables have keyword names, find_api_function returns the one whose   *)
(* name sorts first (by code point, so capitals before small letters),     *)
(* wherever the module defines it.                                         *)
(***************************************************************************)
C17_FirstSortedWins ==
  SecondPassChoice =>
     \E k \in KeywordCallables(unit) :
        /\ api_function = unit[k]
        /\ \A o \in KeywordCallables(unit) \ {k} : StrLess(unit[k].name, unit[o].name)

\* Bot_Message is returned although cori_reply is defined before it.
C17_Witness ==
  /\ SecondPassChoice
  /\ unit[1].name = <<"c", "o", "r", "i", "_", "r", "e", "p", "l", "y">>
  /\ unit[1].callable
  /\ unit[2].name = <<"B", "o", "t", "_", "M", "e", "s", "s", "a", "g", "e">>
  /\ api_function = unit[2]

(***************************************************************************)
(* C18.  What the second pass returns is a callable of the module whose    *)
(* name is not private and holds a keyword in lower case, and it is        *)
(* returned only when no callable has a name of the candidate list;        *)
(* find_api_function returns None exactly when the module has no callable  *)
(* of either sort.                                                         *)
(***************************************************************************)
C18_SecondPassOnlyAfterFirst ==
  Resolved =>
     /\ CanonicalCallables(unit) # {} =>
          \E k \in CanonicalCallables(unit) : api_function = unit[k]
     /\ (CanonicalCallables(unit) = {} /\ api_function # NoneAttr) =>
          \E k \in KeywordCallables(unit) : api_function = unit[k]
     /\ api_function = NoneAttr <=>
          (CanonicalCallables(unit) = {} /\ KeywordCallables(unit) = {})

\* cori_reply is returned from a module whose private _chat sorts before it
\* and whose chat is data.
C18_Witness ==
  /\ Resolved
  /\ CanonicalCallables(unit) = {}
  /\ \E k \in 1..Len(unit) : unit[k].name = <<"_", "c", "h", "a", "t">> /\ unit[k].callable
  /\ \E k \in 1..Len(unit) : unit[k].name = <<"c", "h", "a", "t">> /\ ~unit[k].callable
  /\ api_function.name = <<"c", "o", "r", "i", "_", "r", "e", "p", "l", "y">>

\* The tiers of a file, stated on its name and text.
ExactFile(f) == IsPatternName(FileName(f))

PartialFile(f) ==
  /\ EndsWith(FileName(f), PySuffix)
  /\ \E w \in 1..Len(NameKeywords) : Contains(Lower(FileName(f)), NameKeywords[w])

ContentFile(f) ==
  /\ EndsWith(FileName(f), PySuffix)
  /\ FileReadable(f)
  /\ \E w \in 1..Len(ContentPhrases) :
       Contains(Lower(JoinLines(FileLines(f))), ContentPhrases[w])

\* find_chatbot_module has returned, for a repository that exists.
Searched == pc = "returned" /\ repo_exists

Found == chatbot_module_path # NonePath

(***************************************************************************)
(* C19.  find_chatbot_module returns a file of the tree that matches some  *)
(* tier; a file that does not match exactly is returned only when no file  *)
(* of the tree matches exactly, a file that matches by content alone only  *)
(* when no file matches exactly or by a partial name; and it returns None  *)
(* exactly when no file of the tree matches any tier.                      *)
(***************************************************************************)
C19_TiersInOrder ==
  Searched =>
     /\ Found =>
          /\ chatbot_module_path.file \in TreeFiles(tree)
          /\ \/ ExactFile(chatbot_module_path.file)
             \/ PartialFile(chatbot_module_path.file)
             \/ ContentFile(chatbot_module_path.file)
     /\ (Found /\ ~ExactFile(chatbot_module_path.file)) =>
          \A f \in TreeFiles(tree) : ~ExactFile(f)
     /\ (Found /\ ~ExactFile(chatbot_module_path.file)
               /\ ~PartialFile(chatbot_module_path.file)) =>
          \A f \in TreeFiles(tree) : ~ExactFile(f) /\ ~PartialFile(f)
     /\ ~Found <=>
          \A f \in TreeFiles(tree) : ~ExactFile(f) /\ ~PartialFile(f) /\ ~ContentFile(f)

\* main.py is returned for its text, from a tree whose first file has a
\* keyword name but is no .py file.
C19_Witness ==
  /\ Searched
  /\ tree = << <<"chat.txt">>, <<"main.py">> >>
  /\ chatbot_module_path = JoinPath(2, "main.py")

\* The places (directory, position in its listing) of the files with a
\* pattern name.
ExactPlaces(t) ==
  {pl \in UNION {{<<d, k>> : k \in 1..Len(t[d])} : d \in 1..Len(t)} :
     ExactFile(t[pl[1]][pl[2]])}

\* The place of a name in the pattern list.
PatternRank(n) == CHOOSE p \in 1..Len(patterns) : patterns[p] = n

SeveralExact == Searched /\ Cardinality(ExactPlaces(tree)) >= 2

(***************************************************************************)
(* C20 as claimed.  When several files have pattern names,                 *)
(* find_chatbot_module returns the first of them in traversal order:       *)
(* directories in walk order, files in the order the walk lists them       *)
(* within a directory.                                                     *)
(***************************************************************************)
C20_FirstListedWins ==
  SeveralExact =>
     \E pl \in ExactPlaces(tree) :
        /\ chatbot_module_path = JoinPath(pl[1], tree[pl[1]][pl[2]])
        /\ \A o \in ExactPlaces(tree) :
             pl[1] < o[1] \/ (pl[1] = o[1] /\ pl[2] <= o[2])

(***************************************************************************)
(* C20.  When several files have pattern names, find_chatbot_module        *)
(* returns one from the first directory, in walk order, that holds any of  *)
(* them, and among those of that directory the one whose name comes first  *)
(* in the pattern list, wherever the walk lists it.                        *)
(***************************************************************************)
C20_FirstDirectoryThenPatternOrder ==
  SeveralExact =>
     \E pl \in ExactPlaces(tree) :
        /\ chatbot_module_path = JoinPath(pl[1], tree[pl[1]][pl[2]])
        /\ \A o \in ExactPlaces(tree) :
             \/ pl[1] < o[1]
             \/ /\ pl[1] = o[1]
                /\ PatternRank(FileName(tree[pl[1]][pl[2]]))
                     <= PatternRank(FileName(tree[o[1]][o[2]]))

\* cori.py is returned although the walk lists bot.py before it.
C20_Witness ==
  /\ SeveralExact
  /\ tree = << <<"bot.py", "cori.py">> >>
  /\ chatbot_module_path = JoinPath(1, "cori.py")

\* The places of the tree, and walk order on them.
Places(t) == UNION {{<<d, k>> : k \in 1..Len(t[d])} : d \in 1..Len(t)}

Before(a, b) == a[1] < b[1] \/ (a[1] = b[1] /\ a[2] < b[2])

\* The search has reached its content walk: no file matches by name.
ContentTier ==
  /\ Searched
  /\ \A f \in TreeFiles(tree) : ~ExactFile(f) /\ ~PartialFile(f)

\* A .py file that open() or read() fails on.
Unreadable(f) == EndsWith(FileName(f), PySuffix) /\ ~FileReadable(f)

(***************************************************************************)
(* C21.  In the content walk a file that cannot be read counts as a file   *)
(* without match: it is never returned, and the walk goes on, so that the  *)
(* first readable file with a phrase is returned also when unreadable      *)
(* files come before it; with no such file the result is None.             *)
(***************************************************************************)
C21_UnreadableIsNoMatch ==
  ContentTier =>
     /\ Found => ~Unreadable(chatbot_module_path.file)
     /\ \A pl \in Places(tree) :
          (/\ ContentFile(tree[pl[1]][pl[2]])
           /\ \A o \in Places(tree) : Before(o, pl) => ~ContentFile(tree[o[1]][o[2]]))
          => chatbot_module_path = JoinPath(pl[1], tree[pl[1]][pl[2]])
     /\ (\A f \in TreeFiles(tree) : ~ContentFile(f)) => ~Found

\* main.py is returned although locked.py, which cannot be read, is listed
\* before it.
C21_Witness ==
  /\ ContentTier
  /\ tree = << <<"locked.py", "main.py">> >>
  /\ chatbot_module_path = JoinPath(1, "main.py")

\* The scan of the file has returned.
Scanned == pc = "returned"

\* The file was read to its end: nothing was raised and logged.
FileWasRead == error_log = << >>

\* The lines of the file that the scan takes for route lines: a route
\* decorator, in any letter case, with chat, message or cori on the line.
KeywordRouteLines(c) ==
  {i \in 1..Len(c) :
     /\ \E w \in 1..Len(RouteMarkers) : Contains(Lower(c[i]), RouteMarkers[w])
     /\ \E w \in 1..Len(RouteKeywords) : Contains(Lower(c[i]), RouteKeywords[w])}

ApiChatPath == <<"/", "a", "p", "i", "/", "c", "h", "a", "t">>

HandleChatName == <<"h", "a", "n", "d", "l", "e", "_", "c", "h", "a", "t">>

(***************************************************************************)
(* C22.  The scan of a file whose one chat, message or cori route line is  *)
(* @app.route("/api/chat"), followed by the line                           *)
(* def handle_chat(request):, yields exactly one route declaration: the    *)
(* path /api/chat without its quotes and the handler handle_chat.          *)
(***************************************************************************)
C22_ApiChatExample ==
  (/\ Scanned
   /\ FileWasRead
   /\ \E i \in 1..(Len(content) - 1) :
        /\ KeywordRouteLines(content) = {i}
        /\ content[i] = RouteApiChat
        /\ content[i + 1] = DefHandleChat)
  => endpoints = << [route |-> ApiChatPath,
                     func_name |-> HandleChatName,
                     file_path |-> ScannedPath] >>

\* The two lines between other lines.
C22_Witness ==
  /\ Scanned
  /\ content = <<CommentLine, RouteApiChat, DefHandleChat, RouteApiAsk>>
  /\ Len(endpoints) = 1
  /\ endpoints[1].route = ApiChatPath

ApiAskPath == <<"/", "a", "p", "i", "/", "a", "s", "k">>

ChatHandlerName == <<"c", "h", "a", "t", "_", "h", "a", "n", "d", "l", "e", "r">>

\* The next line after line i that is not blank (0 if there is none).
NextNonBlank(c, i) ==
  LET later == {j \in (i + 1)..Len(c) : Strip(c[j]) # << >>}
  IN  IF later = {} THEN 0 ELSE MinOf(later)

(***************************************************************************)
(* C23 as claimed.  The route /api/ask, whose decorator line has no        *)
(* keyword, is extracted with its handler when the next non-blank line is  *)
(* def chat_handler():, which has one.                                     *)
(***************************************************************************)
C23_KeywordOnNextLineCounts ==
  (Scanned /\ FileWasRead) =>
     \A i \in 1..Len(content) :
        (/\ content[i] = RouteApiAsk
         /\ NextNonBlank(content, i) # 0
         /\ content[NextNonBlank(content, i)] = DefChatHandler)
        => \E k \in 1..Len(endpoints) :
              endpoints[k].route = ApiAskPath /\ endpoints[k].func_name = ChatHandlerName

(***************************************************************************)
(* C23.  Only the decorator line counts: from a file that was read without *)
(* error the scan extracts one declaration for each route decorator line   *)
(* that itself holds chat, message or cori, and none for the route         *)
(* /api/ask, whatever the line after it holds.                             *)
(***************************************************************************)
C23_KeywordOnDecoratorLineOnly ==
  (Scanned /\ FileWasRead) =>
     /\ Len(endpoints) = Cardinality(KeywordRouteLines(content))
     /\ \A k \in 1..Len(endpoints) : endpoints[k].route # ApiAskPath

\* /api/ask followed by def chat_handler(): gives no declaration.
C23_Witness ==
  /\ Scanned
  /\ FileWasRead
  /\ content = <<RouteApiAsk, DefChatHandler>>
  /\ endpoints = << >>

\* The keyword route lines whose extraction succeeds: the line has the text
\* route( as written, and the next line exists and has the text def .
WellFormedRouteLines(c) ==
  {i \in KeywordRouteLines(c) :
     /\ Contains(c[i], <<"r", "o", "u", "t", "e", "(">>)
     /\ i < Len(c)
     /\ Contains(Strip(c[i + 1]), <<"d", "e", "f", " ">>)}

MalformedRouteLines(c) == KeywordRouteLines(c) \ WellFormedRouteLines(c)

(***************************************************************************)
(* C24.  The scan of a file never ends by an exception leaving it: for     *)
(* every content, with malformed route lines, with a route decorator on    *)
(* the last line, or with open() failing, it returns; and when the file    *)
(* has no route line with a keyword it returns no declaration.             *)
(***************************************************************************)
C24_ScanAlwaysReturns ==
  /\ pc \in {"scan", "returned"}
  /\ Scanned =>
       /\ Len(endpoints) <= Cardinality(WellFormedRouteLines(content))
       /\ KeywordRouteLines(content) = {} => endpoints = << >>

\* The scan has returned from a file whose last line is a route decorator.
C24_Witness ==
  /\ Scanned
  /\ content = <<CommentLine, RouteApiChat>>
  /\ endpoints = << >>
  /\ error_log # << >>

\* open() succeeded: no OSError was logged.
FileOpened ==
  \A k \in 1..Len(error_log) :
     ~(error_log[k].site = 190 /\ error_log[k].subject.error = "OSError")

\* The scan has returned from a file it could open and that has a malformed
\* keyword route line.
ScannedMalformed ==
  /\ Scanned
  /\ FileOpened
  /\ MalformedRouteLines(content) # {}

(***************************************************************************)
(* C25 as claimed.  A malformed keyword route line is passed over alone    *)
(* and silently: every well-formed keyword route line of the file, before  *)
(* or after it, gives a declaration, and nothing is logged.                *)
(***************************************************************************)
C25_SkippedAloneAndSilently ==
  ScannedMalformed =>
     /\ Len(endpoints) = Cardinality(WellFormedRouteLines(content))
     /\ error_log = << >>

(***************************************************************************)
(* C25.  The first malformed keyword route line ends the scan of its file: *)
(* the well-formed keyword route lines before it give a declaration each,  *)
(* the lines after it give none, and one error that names the file and the *)
(* exception is logged.                                                    *)
(***************************************************************************)
C25_MalformedLineEndsTheFile ==
  ScannedMalformed =>
     /\ Len(endpoints) =
          Cardinality({i \in WellFormedRouteLines(content) :
                         i < MinOf(MalformedRouteLines(content))})
     /\ error_log =
          << LogEntry(190, [file_path |-> ScannedPath, error |-> "IndexError"]) >>

\* A decorator without handler, then a well-formed route: no declaration,
\* one error.
C25_Witness ==
  /\ ScannedMalformed
  /\ content = <<RouteApiChat, CommentLine, RouteApiChat, DefHandleChat>>
  /\ endpoints = << >>
  /\ Len(error_log) = 1

\* The errors try_chatbot_function has logged, as loop positions.
InvocationErrors ==
  SelectSeq(error_log, LAMBDA e : e.site = 141)

\* try_chatbot_function has returned after every pattern failed for every
\* message.
Exhausted == EngineReturned /\ ~success /\ pc # "KILLED"

(***************************************************************************)
(* C26 as claimed.  When every pattern has failed for every message, the   *)
(* one invocation error that try_chatbot_function has logged is that of    *)
(* the very last attempt: pattern 5 of the last message.                   *)
(***************************************************************************)
C26_OnlyTheLastErrorSurfaces ==
  Exhausted =>
     InvocationErrors =
        << LogEntry(141, [m |-> Len(test_messages), i |-> PatternCount]) >>

(***************************************************************************)
(* C26.  When every pattern has failed for every message,                  *)
(* try_chatbot_function has logged one invocation error per message, in    *)
(* message order: that of pattern 5 of that message.  The errors of the    *)
(* patterns 1 to 4 are never logged, and the last record is that of the    *)
(* very last attempt.                                                      *)
(***************************************************************************)
C26_LastErrorOfEveryMessage ==
  /\ \A k \in 1..Len(InvocationErrors) : InvocationErrors[k].subject.i = PatternCount
  /\ Exhausted =>
       /\ Len(InvocationErrors) = Len(test_messages)
       /\ \A k \in 1..Len(test_messages) :
            InvocationErrors[k] = LogEntry(141, [m |-> k, i |-> PatternCount])

\* All thirty attempts on the six messages have failed; six errors are
\* logged.
C26_Witness ==
  /\ Exhausted
  /\ Len(attempts) = 30
  /\ Len(InvocationErrors) = 6

\* ------------------------------------------------------------------ C27 --

\* main has passed the test of line 221 and found no repository directory.
RootMissing == ~repo_exists /\ ~args.usage_error /\ pc # "START"

(***************************************************************************)
(* C27.  When the repository directory does not exist, the run ends FAILED *)
(* with exit status 1 and no stage has run: FAILED is the only stage ever  *)
(* entered (nothing is retried), no module path was searched for, nothing  *)
(* was loaded, resolved, invoked or executed, no route was extracted, and  *)
(* the one thing logged is the error of line 222.                          *)
(***************************************************************************)
C27_MissingRootFailsAtOnce ==
  RootMissing =>
    /\ pc = "FAILED"
    /\ stages = << "FAILED" >>
    /\ verdict = "FAILED"
    /\ exit_status = 1
    /\ chatbot_module_path = NonePath
    /\ module = ""
    /\ api_function = NoneAttr
    /\ attempts = << >>
    /\ endpoints = << >>
    /\ executed = << >>
    /\ error_log = << LogEntry(222, "") >>

\* A run given a probe message that found no repository directory and has
\* ended.
C27_Witness ==
  /\ RootMissing
  /\ pc = "FAILED"
  /\ exit_status = 1
  /\ args.message # ""

\* ------------------------------------------------------------------ C28 --

\* The entries of `executed` made in the given stage.
ExecutedIn(stage) == SelectSeq(executed, LAMBDA e : e.stage = stage)

\* load_module_from_path has run the top-level code of the selected file.
LoadRan ==
  /\ InStages("LOADING") /\ pc # "LOADING"
  /\ HasLoader(chatbot_module_path) /\ FileReadable(chatbot_module_path.file)

ProbeSupplied == ~args.usage_error /\ args.has_message

\* main has built test_messages (lines 208-217).
MessagesBuilt == ~args.usage_error /\ pc # "START"

\* The message of the first invocation attempt, or << >> before any attempt.
FirstAttemptMessage ==
  IF attempts = << >> THEN << >>
  ELSE << test_messages[attempts[1].m] >>

(***************************************************************************)
(* C29.  When the caller supplies a probe message it stands                *)
(* before the five fixed samples, which keep their order after it, and is  *)
(* the message of the first attempt; without a probe message the list is   *)
(* the five samples and the attempts start with the first of them.         *)
(***************************************************************************)
C29_ProbeMessageComesFirst ==
  MessagesBuilt =>
    /\ test_messages =
         (IF ProbeSupplied THEN << args.message >> ELSE << >>) \o SampleMessages
    /\ attempts # << >> =>
         /\ attempts[1].m = 1 /\ attempts[1].i = 1
         /\ FirstAttemptMessage =
              << IF ProbeSupplied THEN args.message ELSE SampleMessages[1] >>

\* ------------------------------------------------------------------ C30 --

\* The attributes of the unit that are callable, in the order of definition.
Callables(u) == SelectSeq(u, LAMBDA a : a.callable)

\* The unit binds a name of the candidate list to something not callable.
CanonicalNonCallables(u) ==
  {k \in 1..Len(u) :
     ~u[k].callable /\ \E c \in 1..Len(function_candidates) : function_candidates[c] = u[k].name}

(***************************************************************************)
(* C30.  find_api_function never returns an attribute that is not          *)
(* callable: what it returns is None or a callable attribute of the        *)
(* module.  An attribute that is not callable is skipped, whatever its     *)
(* name: the result is the one the module would give without its           *)
(* attributes that are not callable, so such an attribute under a name of  *)
(* the candidate list keeps neither a later name of the list nor a match   *)
(* of the second pass from being returned.                                 *)
(***************************************************************************)
C30_NonCallableIsSkipped ==
  Resolved =>
    /\ api_function # NoneAttr =>
         /\ api_function.callable
         /\ \E k \in 1..Len(unit) : unit[k] = api_function
    /\ api_function = find_api_function(Callables(unit))
    /\ CanonicalNonCallables(unit) # {} =>
         /\ CanonicalCallables(unit) # {} =>
              \E k \in CanonicalCallables(unit) : api_function = unit[k]
         /\ (CanonicalCallables(unit) = {} /\ KeywordCallables(unit) # {}) =>
              \E k \in KeywordCallables(unit) : api_function = unit[k]

\* chat is bound to plain data and is defined first; respond, later in the
\* candidate list, is a function and is returned.
C30_Witness ==
  /\ Resolved
  /\ Len(unit) >= 2
  /\ unit[1].name = <<"c", "h", "a", "t">>
  /\ ~unit[1].callable
  /\ CanonicalCallables(unit) # {}
  /\ api_function.name = <<"r", "e", "s", "p", "o", "n", "d">>
  /\ api_function.callable

\* ------------------------------------------------------------------ C31 --

(***************************************************************************)
(* C31.  An attempt whose call returned a value, whatever the value, is    *)
(* counted as a success, and it is the last attempt made: the value        *)
(* returned never leads to a further attempt.                              *)
(***************************************************************************)
C31_ReturnIsSuccess ==
  \A k \in 1..Len(attempts) :
     attempts[k].returned =>
        /\ attempts[k].outcome = "success"
        /\ k = Len(attempts)

\* ------------------------------------------------------------------ C32 --

\* try_chatbot_function has returned to its caller.
EngineOver == pc \in {"returned", "SUCCEEDED", "FALLING_BACK"}

(***************************************************************************)
(* C32.  Given an empty message list or a falsy func, try_chatbot_function *)
(* makes no attempt and returns False; and whenever it returns True, one   *)
(* attempt at least was made whose call returned without raising.          *)
(***************************************************************************)
C32_NoAttemptNoSuccess ==
  /\ (pc # "try_chatbot_function" /\
      (test_messages = << >> \/ ~api_function.truthy)) =>
        /\ pc = "returned"
        /\ attempts = << >>
        /\ executed = << >>
        /\ ~success
  /\ success =>
        \E k \in 1..Len(attempts) :
           attempts[k].returned /\ attempts[k].outcome = "success"
  /\ (EngineOver /\ attempts = << >>) => ~success

\* The engine has returned False at once for a func that is callable but
\* falsy, although there were messages to try.
C32_Witness ==
  /\ pc = "returned"
  /\ api_function.callable /\ ~api_function.truthy
  /\ test_messages # << >>
  /\ attempts = << >>
  /\ ~success

\* ------------------------------------------------------------------ C33 --

\* The files of listing l that have a pattern name.
ExactIn(l) == {l[k] : k \in {j \in 1..Len(l) : ExactFile(l[j])}}

\* The first directory of the walk that holds a file with a pattern name.
FirstExactDir(t) == MinOf({d \in 1..Len(t) : ExactIn(t[d]) # {}})

\* The tree with the listing of directory d in the opposite order.
Relisted(t, d) ==
  [e \in 1..Len(t) |->
     IF e = d THEN [k \in 1..Len(t[d]) |-> t[d][Len(t[d]) + 1 - k]] ELSE t[e]]

(***************************************************************************)
(* C33.  When files of the tree have pattern names, find_chatbot_module    *)
(* returns a file of the first directory of the walk that holds one,       *)
(* whatever the place in the pattern list of the names found in later      *)
(* directories; of the pattern-named files of that directory it returns    *)
(* the one whose name is earliest in the pattern list, and it returns the  *)
(* same file when the directory lists its files in the opposite order.     *)
(***************************************************************************)
C33_PatternOrderWithinWalkOrderAcross ==
  (Searched /\ ExactPlaces(tree) # {}) =>
     LET d == FirstExactDir(tree)
     IN  /\ chatbot_module_path.dir = d
         /\ chatbot_module_path.file \in ExactIn(tree[d])
         /\ \A f \in ExactIn(tree[d]) :
              PatternRank(FileName(chatbot_module_path.file)) <= PatternRank(FileName(f))
         /\ find_chatbot_module(repo_exists, Relisted(tree, d)) = chatbot_module_path

\* bot.py of the root is returned although cori.py, earlier in the pattern
\* list, lies in a directory the walk visits later.
C33_Witness ==
  /\ Searched
  /\ tree = << <<"bot.py">>, <<"cori.py">> >>
  /\ chatbot_module_path = JoinPath(1, "bot.py")

\* ------------------------------------------------------------------ C34 --

\* The text of file f passes the test of line 164: a Flask import and one of
\* the words chat, cori, bot, in any case of the letters.
PassesFilter(f) ==
  /\ ContainsAny(Lower(JoinLines(FileLines(f))), FlaskImports)
  /\ ContainsAny(Lower(JoinLines(FileLines(f))), AppKeywords)

\* The places of the tree whose file is a .py file that passes the filter.
FilteredPlaces(t) ==
  {pl \in UNION {{<<d, k>> : k \in 1..Len(t[d])} : d \in 1..Len(t)} :
     EndsWith(FileName(t[pl[1]][pl[2]]), PySuffix) /\ PassesFilter(t[pl[1]][pl[2]])}

\* test_flask_endpoints has returned to main.
FallbackReturned == FallbackDone /\ pc # "KILLED"

(***************************************************************************)
(* C34.  Every route declaration the fallback reports comes from a .py     *)
(* file whose text has a Flask import and one of the words chat, cori,     *)
(* bot: a declaration in a file without them is never reported.  When no   *)
(* file of the tree passes that filter the fallback ends FAILED with no    *)
(* declaration and without having scanned the lines of any file.           *)
(***************************************************************************)
C34_OnlyFilteredFilesAreScanned ==
  FallbackReturned =>
    /\ \A k \in 1..Len(endpoints) :
         \E pl \in FilteredPlaces(tree) :
            endpoints[k].file_path = JoinPath(pl[1], tree[pl[1]][pl[2]])
    /\ \A k \in 1..Len(error_log) :
         error_log[k].site = 190 =>
            \E pl \in FilteredPlaces(tree) :
               error_log[k].subject.file_path = JoinPath(pl[1], tree[pl[1]][pl[2]])
    /\ FilteredPlaces(tree) = {} =>
         /\ endpoints = << >>
         /\ pc = "FAILED"
         /\ \A k \in 1..Len(error_log) : error_log[k].site # 190

\* The fallback has reported the routes of the file with a Flask import and
\* none of the file that has the same route line without the import.
C34_Witness ==
  /\ FallbackReturned
  /\ tree = MixedTree
  /\ endpoints # << >>
  /\ \A k \in 1..Len(endpoints) : endpoints[k].file_path = JoinPath(2, "server_two_routes")
  /\ FileEndpoints(JoinPath(1, "server_bare")) # << >>

\* ------------------------------------------------------------------ C35 --

\* The selected file has a Flask import.
SelectedIsFlask == \E f \in disk : f.path = selected_file /\ f.flask

(***************************************************************************)
(* C35.  Once run_application has changed the working directory, the path  *)
(* it was given still names the selected file: the path in the command is  *)
(* that path, the Flask options are in the command exactly when the        *)
(* selected file has a Flask import, and the file the child process runs   *)
(* is the selected file.                                                   *)
(***************************************************************************)
C35_CommandDesignatesSelectedFile ==
  /\ pc \in {"find_run_command", "Popen", "relaying"} =>
       ResolvePath(cwd, selected_file) = selected_file
  /\ pc \in {"Popen", "relaying"} =>
       /\ command.path = selected_file
       /\ (command.options = FlaskOptions) <=> SelectedIsFlask
  /\ pc = "relaying" => launched = selected_file

\* ------------------------------------------------------------------ C36 --

\* The parent is blocked in readline on the stream: the pipe is empty and
\* the child still runs.
WaitsOn(stream) ==
  /\ child.state = "running"
  /\ \/ stream = "out" /\ pc = "stdout.readline" /\ stdout_pipe = << >>
     \/ stream = "err" /\ pc = "stderr.readline" /\ stderr_pipe = << >>

\* The child is blocked in a write to the stream: the pipe is full.
BlockedOn(stream) ==
  /\ child.state = "running"
  /\ child.program # << >>
  /\ Head(child.program) = stream
  /\ \/ stream = "out" /\ Len(stdout_pipe) >= PipeCapacity
     \/ stream = "err" /\ Len(stderr_pipe) >= PipeCapacity

(***************************************************************************)
(* C36.  The relay loop cannot come to a halt: no state is reached in      *)
(* which the parent waits for a line on one pipe while the child is        *)
(* blocked in a write to the other.                                        *)
(***************************************************************************)
C36_NoPipeDeadlock ==
  /\ ~(WaitsOn("out") /\ BlockedOn("err"))
  /\ ~(WaitsOn("err") /\ BlockedOn("out"))

\* ------------------------------------------------------------------ C37 --

(***************************************************************************)
(* C37.  When the relay loop has ended, every line the child wrote has     *)
(* been relayed: no line is left unread in a pipe.                         *)
(***************************************************************************)
C37_EveryLineRelayed ==
  pc = "returned" =>
    /\ stdout_pipe = << >>
    /\ stderr_pipe = << >>
    /\ Len(relayed) = child.written

====
